---------------------------- MODULE Spec2Model ----------------------------
(***************************************************************************)
(* ShellShield command analyzer (checkDestructive and its rules).          *)
(*                                                                         *)
(* Strings of the program are sequences of one-character strings, so that  *)
(* the string functions of the source (startsWith, split, toLowerCase,     *)
(* regular expressions) are computed, not assumed.  Characters without a   *)
(* usable spelling are written "ESC" (U+001B), "ZW" (a zero-width          *)
(* character, U+200B), "CYR" (a Cyrillic letter), "GRK" (a Greek letter),  *)
(* "OTH" (another non-ASCII letter) and "BQ" (the backquote).              *)
(***************************************************************************)
EXTENDS Integers, Sequences, FiniteSets, TLC

(***************************************************************************)
(* Character classes and string helpers                                    *)
(***************************************************************************)
LowerLetters ==
  {"a","b","c","d","e","f","g","h","i","j","k","l","m",
   "n","o","p","q","r","s","t","u","v","w","x","y","z"}

UpperLetters ==
  {"A","B","C","D","E","F","G","H","I","J","K","L","M",
   "N","O","P","Q","R","S","T","U","V","W","X","Y","Z"}

Digits == {"0","1","2","3","4","5","6","7","8","9"}

UpperToLower ==
  [c \in UpperLetters |->
     CASE c = "A" -> "a" [] c = "B" -> "b" [] c = "C" -> "c" [] c = "D" -> "d"
       [] c = "E" -> "e" [] c = "F" -> "f" [] c = "G" -> "g" [] c = "H" -> "h"
       [] c = "I" -> "i" [] c = "J" -> "j" [] c = "K" -> "k" [] c = "L" -> "l"
       [] c = "M" -> "m" [] c = "N" -> "n" [] c = "O" -> "o" [] c = "P" -> "p"
       [] c = "Q" -> "q" [] c = "R" -> "r" [] c = "S" -> "s" [] c = "T" -> "t"
       [] c = "U" -> "u" [] c = "V" -> "v" [] c = "W" -> "w" [] c = "X" -> "x"
       [] c = "Y" -> "y" [] OTHER -> "z"]

\* String.prototype.toLowerCase on one character and on a string.
LowerChar(c) == IF c \in UpperLetters THEN UpperToLower[c] ELSE c
ToLower(s) == [k \in 1..Len(s) |-> LowerChar(s[k])]

\* \w of a JavaScript regular expression.
IsWordChar(c) == c \in LowerLetters \cup UpperLetters \cup Digits \cup {"_"}
\* \s of a JavaScript regular expression (the blank is the only one modelled).
IsSpace(c) == c = " "

StartsWith(s, p) == Len(p) <= Len(s) /\ SubSeq(s, 1, Len(p)) = p
EndsWith(s, p) == Len(p) <= Len(s) /\ SubSeq(s, Len(s) - Len(p) + 1, Len(s)) = p
Includes(s, p) ==
  \E k \in 1..(Len(s) - Len(p) + 1) : SubSeq(s, k, k + Len(p) - 1) = p
Drop(s, n) == SubSeq(s, n + 1, Len(s))
\* p occurs in s at position k.
HasAt(s, k, p) == k >= 1 /\ k + Len(p) - 1 <= Len(s) /\ SubSeq(s, k, k + Len(p) - 1) = p

\* An operator's argument is evaluated where the operator uses it; the element
\* of a one-element set is a value computed once: Value({F(v) : v \in {e}}).
Value(S) == CHOOSE v \in S : TRUE

\* Index of the first occurrence of character c in s at or after from; 0 if none.
RECURSIVE IndexFrom(_, _, _)
IndexFrom(s, c, from) ==
  IF from > Len(s) THEN 0
  ELSE IF s[from] = c THEN from
  ELSE IndexFrom(s, c, from + 1)

\* Index of the last occurrence of character c in s; 0 if none.
RECURSIVE LastIndexOf(_, _, _)
LastIndexOf(s, c, k) ==
  IF k = 0 THEN 0
  ELSE IF s[k] = c THEN k
  ELSE LastIndexOf(s, c, k - 1)

\* Array.prototype.join(" ") over a sequence of strings.
RECURSIVE JoinSp(_)
JoinSp(ws) ==
  IF ws = <<>> THEN <<>>
  ELSE IF Len(ws) = 1 THEN ws[1]
  ELSE ws[1] \o <<" ">> \o JoinSp(Tail(ws))

(***************************************************************************)
(* A small engine for the regular expressions of the source.  A pattern is *)
(* a sequence of elements:                                                 *)
(*   lit   one of the alternatives in alts, compared case-insensitively    *)
(*         (a pattern with the i flag);                                    *)
(*   cs    one of the alternatives in alts, compared exactly;              *)
(*   b     \b;   ws  \s{0,max};   gap  [^|]{0,max};   optq  ["']?;         *)
(*   ver   \d*(?:\.\d+)*                                                   *)
(***************************************************************************)
Lit(alts) == [t |-> "lit", alts |-> alts, max |-> 0]
LitCs(alts) == [t |-> "cs", alts |-> alts, max |-> 0]
WordB == [t |-> "b", alts |-> {}, max |-> 0]
Ws(n) == [t |-> "ws", alts |-> {}, max |-> n]
Gap(n) == [t |-> "gap", alts |-> {}, max |-> n]
OptQuote == [t |-> "optq", alts |-> {}, max |-> 0]
Ver == [t |-> "ver", alts |-> {}, max |-> 0]

Boundary(s, pos) ==
  (pos > 1 /\ IsWordChar(s[pos - 1])) # (pos <= Len(s) /\ IsWordChar(s[pos]))

VerShape(sub) ==
  \A k \in 1..Len(sub) :
     /\ sub[k] \in Digits \cup {"."}
     /\ sub[k] = "." => (k < Len(sub) /\ sub[k + 1] \in Digits)

RECURSIVE Match(_, _, _, _)
Match(p, k, s, pos) ==
  IF k > Len(p) THEN TRUE
  ELSE LET e == p[k]
           rest == Len(s) - pos + 1
           lim == IF e.max < rest THEN e.max ELSE rest
       IN CASE e.t = "lit" ->
                 \E a \in e.alts :
                    /\ Len(a) <= rest
                    /\ ToLower(SubSeq(s, pos, pos + Len(a) - 1)) = a
                    /\ Match(p, k + 1, s, pos + Len(a))
            [] e.t = "cs" ->
                 \E a \in e.alts :
                    /\ Len(a) <= rest
                    /\ SubSeq(s, pos, pos + Len(a) - 1) = a
                    /\ Match(p, k + 1, s, pos + Len(a))
            [] e.t = "b" -> Boundary(s, pos) /\ Match(p, k + 1, s, pos)
            [] e.t = "ws" ->
                 \E n \in 0..lim :
                    /\ \A j \in pos..(pos + n - 1) : IsSpace(s[j])
                    /\ Match(p, k + 1, s, pos + n)
            [] e.t = "gap" ->
                 \E n \in 0..lim :
                    /\ \A j \in pos..(pos + n - 1) : s[j] # "|"
                    /\ Match(p, k + 1, s, pos + n)
            [] e.t = "optq" ->
                 \/ Match(p, k + 1, s, pos)
                 \/ /\ rest >= 1
                    /\ s[pos] \in {"'", "\""}
                    /\ Match(p, k + 1, s, pos + 1)
            [] OTHER ->
                 \E n \in 0..rest :
                    /\ VerShape(SubSeq(s, pos, pos + n - 1))
                    /\ Match(p, k + 1, s, pos + n)

\* RegExp.prototype.test: the pattern matches somewhere in s.
RegexTest(p, s) == \E pos \in 1..(Len(s) + 1) : Match(p, 1, s, pos)

\* The start positions of the matches of p in s (for String.prototype.match
\* with the g flag, when the matches cannot overlap).
MatchStarts(p, s) == {pos \in 1..(Len(s) + 1) : Match(p, 1, s, pos)}

(***************************************************************************)
(* Program constants                                                       *)
(***************************************************************************)
MAX_INPUT_LENGTH == 10000

W_rm == <<"r","m">>
W_dd == <<"d","d">>
W_ls == <<"l","s">>
W_mv == <<"m","v">>
W_cp == <<"c","p">>
W_sh == <<"s","h">>
W_git == <<"g","i","t">>
W_zsh == <<"z","s","h">>
W_sed == <<"s","e","d">>
W_awk == <<"a","w","k">>
W_tar == <<"t","a","r">>
W_gtar == <<"g","t","a","r">>
W_xxd == <<"x","x","d">>
W_env == <<"e","n","v">>
W_bun == <<"b","u","n">>
W_php == <<"p","h","p">>
W_srm == <<"s","r","m">>
W_bash == <<"b","a","s","h">>
W_dash == <<"d","a","s","h">>
W_fish == <<"f","i","s","h">>
W_pwsh == <<"p","w","s","h">>
W_curl == <<"c","u","r","l">>
W_wget == <<"w","g","e","t">>
W_sudo == <<"s","u","d","o">>
W_find == <<"f","i","n","d">>
W_eval == <<"e","v","a","l">>
W_perl == <<"p","e","r","l">>
W_ruby == <<"r","u","b","y">>
W_node == <<"n","o","d","e">>
W_exec == <<"e","x","e","c">>
W_wipe == <<"w","i","p","e">>
W_mkfs == <<"m","k","f","s">>
W_xargs == <<"x","a","r","g","s">>
W_chmod == <<"c","h","m","o","d">>
W_chown == <<"c","h","o","w","n">>
W_chgrp == <<"c","h","g","r","p">>
W_shred == <<"s","h","r","e","d">>
W_python == <<"p","y","t","h","o","n">>
W_base64 == <<"b","a","s","e","6","4">>
W_unlink == <<"u","n","l","i","n","k">>
W_source == <<"s","o","u","r","c","e">>
W_command == <<"c","o","m","m","a","n","d">>
W_openssl == <<"o","p","e","n","s","s","l">>
W_systemctl == <<"s","y","s","t","e","m","c","t","l">>
W_powershell == <<"p","o","w","e","r","s","h","e","l","l">>
W_https == <<"h","t","t","p","s",":","/","/">>
W_http == <<"h","t","t","p",":","/","/">>
W_githubcom == <<"g","i","t","h","u","b",".","c","o","m">>

\* constants.ts: the part of DEFAULT_BLOCKED the model's commands can name.
DEFAULT_BLOCKED == {W_rm, W_shred, W_unlink, W_wipe, W_srm, W_mkfs, W_dd,
                    W_systemctl, W_sudo}

SHELL_COMMANDS == {W_sh, W_bash, W_zsh, W_dash, W_fish, W_pwsh, W_powershell}

\* constants.ts: the part of CRITICAL_PATHS the model's commands can name.
CRITICAL_PATHS ==
  {<<"/">>, <<"/","e","t","c">>, <<"/","u","s","r">>,
   <<"c",":","/","w","i","n","d","o","w","s">>, <<"c",":","w","i","n","d","o","w","s">>}

DEFAULT_TRUSTED_DOMAINS == <<W_githubcom>>

\* patterns.ts
SHELL_INTERPRETERS == SHELL_COMMANDS
DOWNLOAD_COMMANDS == {W_curl, W_wget}
CODE_EXECUTION_FLAGS ==
  {<<"-","c">>, <<"-","e">>, <<"-","c","o","m","m","a","n","d">>,
   <<"-","-","c","o","m","m","a","n","d">>}
NON_SHELL_EXECUTORS == {W_python, W_perl, W_ruby, W_node, W_bun, W_php}
ShBashZsh == {W_sh, W_bash, W_zsh}

\* safeRegexTest without its guard on the length of the input.
safeRegexTestUnguarded(pattern, input, len) == RegexTest(pattern, input)

safeRegexTest(pattern, input, len) ==
  IF len > MAX_INPUT_LENGTH THEN FALSE ELSE RegexTest(pattern, input)

\* X ... | sh : \bX\b[^|]{0,n}?\|\s{0,10}(?:sh|bash|zsh)\b
PipeToShellPattern(src, n) ==
  <<WordB, Lit(src), WordB, Gap(n), Lit({<<"|">>}), Ws(10), Lit(ShBashZsh), WordB>>

PIPE_PATTERNS ==
  [base64ToShell |->
     <<Lit({W_base64}), Ws(10), Lit({<<"-","d">>}), Ws(10), Lit({<<"|">>}),
       Ws(10), Lit(ShBashZsh), WordB>>,
   xxdToShell |->
     <<Lit({W_xxd}), Ws(10), Lit({<<"-","r">>}), Ws(10), Lit({<<"-","p">>}),
       Ws(10), Lit({<<"|">>}), Ws(10), Lit(ShBashZsh), WordB>>,
   downloadToInterpreter |->
     <<WordB, Lit(DOWNLOAD_COMMANDS), WordB, Gap(1000), Lit({<<"|">>}), Ws(10),
       Lit(NON_SHELL_EXECUTORS), WordB>>,
   sedToShell |-> PipeToShellPattern({W_sed}, 500),
   awkToShell |-> PipeToShellPattern({W_awk}, 500),
   opensslToShell |-> PipeToShellPattern({W_openssl}, 500),
   tarToShell |-> PipeToShellPattern({W_tar, W_gtar}, 500)]

PROCESS_SUBSTITUTION_PATTERNS ==
  [standard |-> <<Lit({<<"<","(">>}), Ws(10), Lit(DOWNLOAD_COMMANDS), WordB>>]

EVAL_PATTERNS ==
  [withCurl |-> <<Lit({W_eval}), Ws(10), Lit({<<"$","(">>}), Lit({W_curl}), WordB>>,
   withWget |-> <<Lit({W_eval}), Ws(10), Lit({<<"$","(">>}), Lit({W_wget}), WordB>>,
   withBacktickCurl |-> <<Lit({W_eval}), Ws(10), Lit({<<"BQ">>}), Lit({W_curl}), WordB>>,
   withBacktickWget |-> <<Lit({W_eval}), Ws(10), Lit({<<"BQ">>}), Lit({W_wget}), WordB>>]

POWERSHELL_PATTERNS ==
  [encodedCommand |->
     <<WordB, Lit({W_pwsh, W_powershell}), WordB, Ws(10),
       Lit({<<"-","e","n","c","o","d","e","d","c","o","m","m","a","n","d">>,
            <<"-","e","n","c">>}), WordB>>]

(***************************************************************************)
(* security/validators.ts                                                  *)
(***************************************************************************)
\* token.split(sep)[1] ?? "" for a one-character or longer separator.
AfterFirst(s, sep) ==
  LET hits == {k \in 1..(Len(s) - Len(sep) + 1) : SubSeq(s, k, k + Len(sep) - 1) = sep}
  IN IF hits = {} THEN <<>>
     ELSE LET k == CHOOSE x \in hits : \A y \in hits : x <= y
              r == Drop(s, k + Len(sep) - 1)
              more == {j \in 1..(Len(r) - Len(sep) + 1) : SubSeq(r, j, j + Len(sep) - 1) = sep}
          IN IF more = {} THEN r
             ELSE SubSeq(r, 1, (CHOOSE x \in more : \A y \in more : x <= y) - 1)

\* s.split(c)[0] for a one-character separator.
BeforeFirst(s, c) ==
  LET k == IndexFrom(s, c, 1) IN IF k = 0 THEN s ELSE SubSeq(s, 1, k - 1)

getHostname(token) ==
  LET host0 == IF Includes(token, <<":","/","/">>)
               THEN AfterFirst(token, <<":","/","/">>) ELSE token
      host1 == BeforeFirst(host0, "/")
  IN BeforeFirst(host1, ":")

\* analyzeChar: the script a character adds, "" for none.
ScriptOf(c) ==
  CASE c = "ZW" -> ""
    [] LowerChar(c) \in LowerLetters -> "latin"
    [] c = "CYR" -> "cyrillic"
    [] c = "GRK" -> "greek"
    [] c = "OTH" -> "other"
    [] OTHER -> ""

IsNonAsciiLetter(c) == c \in {"CYR", "GRK", "OTH"}

\* isSuspiciousHost that asks for a Latin letter among the scripts.
isSuspiciousHostLatinOnly(host) ==
  LET scripts == {ScriptOf(host[k]) : k \in 1..Len(host)} \ {""}
      hasNonAsciiLetter == \E k \in 1..Len(host) : IsNonAsciiLetter(host[k])
  IN /\ Includes(host, <<".">>)
     /\ hasNonAsciiLetter
     /\ ("latin" \in scripts) /\ Cardinality(scripts) > 1

isSuspiciousHost(host) ==
  LET scripts == {ScriptOf(host[k]) : k \in 1..Len(host)} \ {""}
      hasNonAsciiLetter == \E k \in 1..Len(host) : IsNonAsciiLetter(host[k])
  IN /\ Includes(host, <<".">>)
     /\ hasNonAsciiLetter
     /\ ((("latin" \in scripts) /\ Cardinality(scripts) > 1) \/ Cardinality(scripts) > 1)

\* The maximal blank-free runs of s, as <<first, last>> index pairs.
Runs(s) ==
  {r \in (1..Len(s)) \X (1..Len(s)) :
     /\ r[1] <= r[2]
     /\ \A k \in r[1]..r[2] : ~IsSpace(s[k])
     /\ (r[1] = 1 \/ IsSpace(s[r[1] - 1]))
     /\ (r[2] = Len(s) \/ IsSpace(s[r[2] + 1]))}

\* str.match(/https?:\/\/[^\s"'`]{0,2000}/g): each match runs from the scheme
\* to the next blank or quote.
UrlCandidates(s) ==
  LET starts == {k \in 1..Len(s) :
                   HasAt(s, k, W_https) \/ HasAt(s, k, W_http)}
      stop(k) == LET bad == {j \in k..Len(s) : s[j] \in {" ", "\"", "'", "BQ"}}
                 IN IF bad = {} THEN Len(s)
                    ELSE (CHOOSE x \in bad : \A y \in bad : x <= y) - 1
  IN {SubSeq(s, k, stop(k)) : k \in starts}

\* str.match(/\b[^\s]{1,253}\.[^\s]{1,253}\b/g): within a blank-free run the
\* greedy match runs from the first word boundary to the last one, and needs a
\* dot strictly inside.
DottedCandidates(s) ==
  LET bounds(r) == {k \in r[1]..(r[2] + 1) : Boundary(s, k)}
      first(r) == CHOOSE x \in bounds(r) : \A y \in bounds(r) : x <= y
      last(r) == CHOOSE x \in bounds(r) : \A y \in bounds(r) : x >= y
      ok(r) == /\ bounds(r) # {}
               /\ \E d \in (first(r) + 1)..(last(r) - 2) : s[d] = "."
  IN {SubSeq(s, first(r), last(r) - 1) : r \in {q \in Runs(s) : ok(q)}}

hasHomograph(str, len) ==
  IF len > MAX_INPUT_LENGTH THEN TRUE
  ELSE LET urls == UrlCandidates(str)
           candidates == IF urls # {} THEN urls ELSE DottedCandidates(str)
       IN \E token \in candidates : isSuspiciousHost(getHostname(token))

\* "" when nothing is detected.
checkTerminalInjection(str) ==
  IF Includes(str, <<"ESC", "[">>) THEN "TERMINAL INJECTION DETECTED"
  ELSE IF Includes(str, <<"ZW">>) THEN "HIDDEN CHARACTERS DETECTED"
  ELSE ""

\* new URL(url) for an http(s) URL.  UrlAuthority is what stands between the
\* scheme and the path; <<>> stands for a URL the constructor rejects.
looksLikeHttpUrl(value) ==
  StartsWith(ToLower(value), W_https) \/ StartsWith(ToLower(value), W_http)

UrlAfterScheme(url) ==
  IF StartsWith(ToLower(url), W_https) THEN Drop(url, Len(W_https))
  ELSE IF StartsWith(ToLower(url), W_http) THEN Drop(url, Len(W_http))
  ELSE <<>>

\* The part of rest before its first character in stops; rest when it has none.
BeforeAny(rest, stops) ==
  LET ends == {k \in 1..Len(rest) : rest[k] \in stops}
  IN IF ends = {} THEN rest
     ELSE SubSeq(rest, 1, (CHOOSE x \in ends : \A y \in ends : x <= y) - 1)

UrlAuthority(url) ==
  Value({BeforeAny(rest, {"/", "?", "#"}) : rest \in {UrlAfterScheme(url)}})

\* URL.hostname: the authority without user-info and port, in lower case.
UrlHostname(url) ==
  Value({ToLower(BeforeFirst(hostport, ":")) :
           hostport \in {Drop(auth, LastIndexOf(auth, "@", Len(auth))) :
                           auth \in {UrlAuthority(url)}}})

\* URL.username or URL.password is not empty.
UrlHasUserinfo(url) ==
  /\ UrlHostname(url) # <<>>
  /\ \E auth \in {UrlAuthority(url)} :
        \E at \in {LastIndexOf(auth, "@", Len(auth))} :
          at > 1 /\ SubSeq(auth, 1, at - 1) # <<":">>

\* URL.pathname: from the first "/" after the authority to "?" or "#".
UrlPathname(url) ==
  Value({IF path = <<>> THEN <<"/">> ELSE path :
           path \in {BeforeAny(rest, {"?", "#"}) :
                       rest \in {Drop(UrlAfterScheme(url), Len(UrlAuthority(url)))}}})

isTrustedDomain(url, trustedDomains) ==
  \E domain \in {UrlHostname(url)} :
     /\ domain # <<>>
     /\ \E k \in 1..Len(trustedDomains) :
           \/ domain = trustedDomains[k]
           \/ EndsWith(domain, <<".">> \o trustedDomains[k])

(***************************************************************************)
(* parser/utils.ts                                                         *)
(***************************************************************************)
\* normalizeCommandName without the conversion to lower case.
normalizeCommandNameKeepingCase(token) ==
  IF token = <<>> THEN <<>>
  ELSE LET stripped == IF token[1] = "\\" THEN Tail(token) ELSE token
           normalized == [k \in 1..Len(stripped) |->
                            IF stripped[k] = "\\" THEN "/" ELSE stripped[k]]
       IN Drop(normalized, LastIndexOf(normalized, "/", Len(normalized)))

normalizeCommandName(token) ==
  IF token = <<>> THEN <<>>
  ELSE LET stripped == IF token[1] = "\\" THEN Tail(token) ELSE token
           normalized == [k \in 1..Len(stripped) |->
                            IF stripped[k] = "\\" THEN "/" ELSE stripped[k]]
           basenamePart == Drop(normalized, LastIndexOf(normalized, "/", Len(normalized)))
       IN ToLower(basenamePart)

\* A variable scope (VarMap, process.env) is a sequence of <<name, value>>
\* pairs with distinct names.
Defined(scope, name) == \E k \in 1..Len(scope) : scope[k][1] = name
ValueOf(scope, name) == scope[CHOOSE k \in 1..Len(scope) : scope[k][1] = name][2]
Assign(scope, name, val) ==
  SelectSeq(scope, LAMBDA pr : pr[1] # name) \o <<<<name, val>>>>

IsIdentStart(c) == c \in LowerLetters \cup UpperLetters \cup {"_"}

\* Length of the longest prefix of s, from position from, made of characters
\* that are not in stop (stopIsWord = FALSE) or that are word characters.
RECURSIVE RunLen(_, _, _, _)
RunLen(s, from, stop, wordOnly) ==
  IF from > Len(s) THEN 0
  ELSE IF wordOnly /\ ~IsWordChar(s[from]) THEN 0
  ELSE IF ~wordOnly /\ s[from] \in stop THEN 0
  ELSE 1 + RunLen(s, from + 1, stop, wordOnly)

\* One match of /\$\{([^}:-]+)(?::-([^}]+))?\}|\$([a-zA-Z_][a-zA-Z0-9_]*)/ at
\* position pos of token: [len, name, hasFallback, fallback]; len = 0 for none.
VarRefAt(token, pos) ==
  LET none == [len |-> 0, name |-> <<>>, hasFallback |-> FALSE, fallback |-> <<>>]
      n == Len(token)
  IN IF token[pos] # "$" \/ pos = n THEN none
     ELSE IF token[pos + 1] = "{"
     THEN LET nl == RunLen(token, pos + 2, {"}", ":", "-"}, FALSE)
              e == pos + 2 + nl
              fl == IF e + 1 <= n /\ token[e] = ":" /\ token[e + 1] = "-"
                    THEN RunLen(token, e + 2, {"}"}, FALSE) ELSE 0
          IN IF nl = 0 \/ e > n THEN none
             ELSE IF token[e] = "}"
                  THEN [len |-> e - pos + 1, name |-> SubSeq(token, pos + 2, e - 1),
                        hasFallback |-> FALSE, fallback |-> <<>>]
             ELSE IF fl > 0 /\ e + 2 + fl <= n /\ token[e + 2 + fl] = "}"
                  THEN [len |-> e + 2 + fl - pos + 1,
                        name |-> SubSeq(token, pos + 2, e - 1),
                        hasFallback |-> TRUE,
                        fallback |-> SubSeq(token, e + 2, e + 1 + fl)]
             ELSE none
     ELSE IF IsIdentStart(token[pos + 1])
     THEN LET nl == RunLen(token, pos + 1, {}, TRUE)
          IN [len |-> 1 + nl, name |-> SubSeq(token, pos + 1, pos + nl),
              hasFallback |-> FALSE, fallback |-> <<>>]
     ELSE none

\* The replacement callback that takes an empty value for a set one under :- too.
VarReplacementKeepingEmpty(m, matchText, vars, env) ==
  LET isDef == Defined(vars, m.name) \/ Defined(env, m.name)
      val == IF Defined(vars, m.name) THEN ValueOf(vars, m.name)
             ELSE IF Defined(env, m.name) THEN ValueOf(env, m.name)
             ELSE <<>>
  IN IF isDef THEN val
     ELSE IF m.hasFallback THEN m.fallback
     ELSE matchText

\* The replacement callback of resolveVariable.
VarReplacement(m, matchText, vars, env) ==
  LET isDef == Defined(vars, m.name) \/ Defined(env, m.name)
      val == IF Defined(vars, m.name) THEN ValueOf(vars, m.name)
             ELSE IF Defined(env, m.name) THEN ValueOf(env, m.name)
             ELSE <<>>
  IN IF m.hasFallback
     THEN (IF isDef /\ Len(val) > 0 THEN val ELSE m.fallback)
     ELSE IF isDef THEN val
     ELSE matchText

RECURSIVE ResolveFrom(_, _, _, _)
ResolveFrom(token, pos, vars, env) ==
  IF pos > Len(token) THEN <<>>
  ELSE LET m == VarRefAt(token, pos)
       IN IF m.len = 0
          THEN <<token[pos]>> \o ResolveFrom(token, pos + 1, vars, env)
          ELSE VarReplacement(m, SubSeq(token, pos, pos + m.len - 1), vars, env)
                 \o ResolveFrom(token, pos + m.len, vars, env)

resolveVariable(token, vars, env) ==
  IF token = <<>> THEN <<>> ELSE ResolveFrom(token, 1, vars, env)

filterFlags(args) == SelectSeq(args, LAMBDA arg : ~StartsWith(arg, <<"-">>))

(***************************************************************************)
(* Tokens (parser/types.ts) and decisions (types.ts)                       *)
(*                                                                         *)
(* A token is a word or an operator object; s is the word's text or the    *)
(* operator's op.                                                          *)
(***************************************************************************)
Word(s) == [k |-> "w", s |-> s]
Op(s) == [k |-> "op", s |-> s]
isOperator(entry) == entry.k = "op"

\* BlockResult.  A reason or suggestion built from a template and values is
\* the template text with the values beside it.
Null ==
  [blocked |-> FALSE, reason |-> "", reasonArgs |-> <<>>,
   suggestion |-> "", suggestionArgs |-> <<>>, rule |-> ""]
Block(reason, suggestion) ==
  [blocked |-> TRUE, reason |-> reason, reasonArgs |-> <<>>,
   suggestion |-> suggestion, suggestionArgs |-> <<>>, rule |-> ""]
BlockWith(reason, reasonArgs, suggestion, suggestionArgs) ==
  [blocked |-> TRUE, reason |-> reason, reasonArgs |-> reasonArgs,
   suggestion |-> suggestion, suggestionArgs |-> suggestionArgs, rule |-> ""]

annotateRule(ruleName, result) ==
  IF ~result.blocked THEN result
  ELSE [result EXCEPT !.rule = IF result.rule # "" THEN result.rule ELSE ruleName]

CONTROL_OPERATORS == {<<"&","&">>, <<"|","|">>, <<";">>, <<"&">>}
PIPE_OPERATORS == {<<"|">>, <<"|","&">>}
COMMAND_BOUNDARY_OPERATORS == CONTROL_OPERATORS \cup PIPE_OPERATORS
REDIRECTION_OPERATORS ==
  {<<">">>, <<">",">">>, <<"<">>, <<"<","<">>, <<"<","<","<">>, <<"<",">">>,
   <<"1",">">>, <<"1",">",">">>, <<"2",">">>, <<"2",">",">">>, <<"&",">">>,
   <<">","&">>, <<"<","&">>}

(***************************************************************************)
(* security/paths.ts, shell-context.ts and the systemctl subcommand set    *)
(* are not among the source files; they follow the specification.          *)
(***************************************************************************)
StripTrailingSlashes(s) ==
  LET keep == {k \in 1..Len(s) : s[k] # "/"}
  IN IF keep = {} THEN <<>>
     ELSE SubSeq(s, 1, CHOOSE x \in keep : \A y \in keep : x >= y)

isCriticalPath(path) ==
  LET normalized == StripTrailingSlashes(
                      ToLower([k \in 1..Len(path) |->
                                 IF path[k] = "\\" THEN "/" ELSE path[k]]))
  IN \/ normalized = <<>>
     \/ normalized \in CRITICAL_PATHS
     \/ normalized = <<".","g","i","t">>
     \/ EndsWith(normalized, <<"/",".","g","i","t">>)

HOME == <<"/","h">>

\* constants.ts SENSITIVE_PATTERNS, applied after ~ is expanded.
isSensitivePath(path) ==
  LET full == IF StartsWith(path, <<"~">>) THEN HOME \o Tail(path) ELSE path
  IN \/ Includes(full, <<"/",".","s","s","h","/">>)
     \/ EndsWith(full, <<"/",".","b","a","s","h","r","c">>)
     \/ EndsWith(full, <<"/",".","z","s","h","r","c">>)
     \/ EndsWith(full, <<"/",".","p","r","o","f","i","l","e">>)
     \/ EndsWith(full, <<"/",".","g","i","t","c","o","n","f","i","g">>)

\* A snapshot is a sequence of [name, kind, referencedTokens] entries.
HasShellContextEntry(snapshot, cmd) == \E k \in 1..Len(snapshot) : snapshot[k].name = cmd
getShellContextEntry(snapshot, cmd) ==
  snapshot[CHOOSE k \in 1..Len(snapshot) : snapshot[k].name = cmd]

\* The first referenced token that is blocked; <<>> for none.
findBlockedTokenInShellContext(entry, blocked) ==
  LET hits == {k \in 1..Len(entry.referencedTokens) : entry.referencedTokens[k] \in blocked}
  IN IF hits = {} THEN <<>>
     ELSE entry.referencedTokens[CHOOSE x \in hits : \A y \in hits : x <= y]

SYSTEMCTL_DESTRUCTIVE_SUBCOMMANDS ==
  {<<"s","t","o","p">>, <<"d","i","s","a","b","l","e">>, <<"m","a","s","k">>,
   <<"k","i","l","l">>}

(***************************************************************************)
(* integrations/git.ts: dirty is the set of paths for which                *)
(* `git status --porcelain` prints something.                              *)
(***************************************************************************)
hasUncommittedChanges(files, dirty) ==
  SelectSeq(files, LAMBDA file : ~StartsWith(file, <<"-">>) /\ file \in dirty)

(***************************************************************************)
(* parser/command-checks.ts                                                *)
(***************************************************************************)
SeqHas(s, T(_)) == \E k \in 1..Len(s) : T(s[k])
FirstIdx(s, T(_)) ==
  LET hits == {k \in 1..Len(s) : T(s[k])}
  IN IF hits = {} THEN 0 ELSE CHOOSE x \in hits : \A y \in hits : x <= y

IsFlag(arg) == StartsWith(arg, <<"-">>)

checkGitIntegration(targetFiles, dirty) ==
  LET uncommitted == hasUncommittedChanges(targetFiles, dirty)
  IN IF Len(uncommitted) > 0
     THEN BlockWith("UNCOMMITTED CHANGES DETECTED", <<>>,
                    "Commit changes to these files first:", uncommitted)
     ELSE Null

\* The blocked-list check with the threshold reached at equality.
BlockedListCheckAtThreshold(resolvedCmd, args, blocked, threshold, dirty) ==
  LET crit == FirstIdx(args, LAMBDA arg : ~IsFlag(arg) /\ isCriticalPath(arg))
      targetFiles == filterFlags(args)
      gitCheck == checkGitIntegration(targetFiles, dirty)
  IN IF resolvedCmd \notin blocked THEN Null
     ELSE IF crit # 0
     THEN BlockWith("CRITICAL PATH PROTECTED", <<>>,
                    "Permanent deletion of <arg> is prohibited.", <<args[crit]>>)
     ELSE IF Len(targetFiles) >= threshold
     THEN Block("VOLUME THRESHOLD EXCEEDED",
                "You are trying to delete <n> files. Use a more specific command.")
     ELSE IF gitCheck.blocked THEN gitCheck
     ELSE IF resolvedCmd = W_rm /\ Len(targetFiles) > 0
     THEN BlockWith("Destructive command '<cmd>' detected", <<resolvedCmd>>,
                    "trash", targetFiles)
     ELSE BlockWith("Destructive command '<cmd>' detected", <<resolvedCmd>>,
                    "trash <files>", <<>>)

BlockedListCheck(resolvedCmd, args, blocked, threshold, dirty) ==
  LET crit == FirstIdx(args, LAMBDA arg : ~IsFlag(arg) /\ isCriticalPath(arg))
      targetFiles == filterFlags(args)
      gitCheck == checkGitIntegration(targetFiles, dirty)
  IN IF resolvedCmd \notin blocked THEN Null
     ELSE IF crit # 0
     THEN BlockWith("CRITICAL PATH PROTECTED", <<>>,
                    "Permanent deletion of <arg> is prohibited.", <<args[crit]>>)
     ELSE IF Len(targetFiles) > threshold
     THEN Block("VOLUME THRESHOLD EXCEEDED",
                "You are trying to delete <n> files. Use a more specific command.")
     ELSE IF gitCheck.blocked THEN gitCheck
     ELSE IF resolvedCmd = W_rm /\ Len(targetFiles) > 0
     THEN BlockWith("Destructive command '<cmd>' detected", <<resolvedCmd>>,
                    "trash", targetFiles)
     ELSE BlockWith("Destructive command '<cmd>' detected", <<resolvedCmd>>,
                    "trash <files>", <<>>)

checkBlockedCommand(resolvedCmd, args, blocked, threshold, dirty) ==
  LET crit == FirstIdx(args, LAMBDA arg : ~IsFlag(arg) /\ isCriticalPath(arg))
      hasRecursive ==
        SeqHas(args, LAMBDA arg :
                 \/ arg = <<"-","R">>
                 \/ arg = <<"-","-","r","e","c","u","r","s","i","v","e">>
                 \/ (IsFlag(arg) /\ ~StartsWith(arg, <<"-","-">>) /\ Includes(arg, <<"R">>)))
      sub == FirstIdx(args, LAMBDA arg : ~IsFlag(arg))
  IN IF resolvedCmd = W_dd
     THEN (IF SeqHas(args, LAMBDA arg : StartsWith(ToLower(arg), <<"o","f","=">>))
           THEN Block("Destructive dd detected", "be careful with dd of=")
           ELSE Null)
     ELSE IF resolvedCmd \in {W_mv, W_cp} /\ crit # 0
     THEN BlockWith("CRITICAL PATH TARGETED", <<>>,
                    "Modifying critical system path <arg> is prohibited.", <<args[crit]>>)
     ELSE IF resolvedCmd \in {W_chmod, W_chown, W_chgrp} /\ hasRecursive /\ crit # 0
     THEN BlockWith("CRITICAL PATH TARGETED", <<>>,
                    "Recursive <cmd> on critical system path <arg> is prohibited.",
                    <<resolvedCmd, args[crit]>>)
     ELSE IF resolvedCmd = W_systemctl
     THEN (IF sub # 0 /\ ToLower(args[sub]) \in SYSTEMCTL_DESTRUCTIVE_SUBCOMMANDS
           THEN BlockWith("Destructive systemctl <sub> detected", <<args[sub]>>,
                          "systemctl <sub> can disrupt system services. Review before running.",
                          <<args[sub]>>)
           ELSE Null)
     ELSE BlockedListCheck(resolvedCmd, args, blocked, threshold, dirty)

ADDITIONAL_DANGEROUS_COMMANDS == {W_rm, W_shred, W_dd, W_mkfs}
EXECUTOR_COMMANDS ==
  SHELL_COMMANDS \cup NON_SHELL_EXECUTORS \cup {<<".">>, W_source}

isDangerousExec(execCmd, dangerousCommands) ==
  ~isOperator(execCmd) /\ normalizeCommandName(execCmd.s) \in dangerousCommands

FindFlags == <<<<"-","e","x","e","c">>, <<"-","e","x","e","c","d","i","r">>, <<"-","o","k">>>>

checkFindCommand(remaining, blockedCommands) ==
  LET dangerousCommands ==
        blockedCommands \cup ADDITIONAL_DANGEROUS_COMMANDS \cup EXECUTOR_COMMANDS
      idx(f) == FirstIdx(remaining, LAMBDA e : ~isOperator(e) /\ ToLower(e.s) = FindFlags[f])
      hit(f) == /\ idx(f) # 0
                /\ idx(f) + 1 <= Len(remaining)
                /\ isDangerousExec(remaining[idx(f) + 1], dangerousCommands)
      hits == {f \in 1..Len(FindFlags) : hit(f)}
  IN IF SeqHas(remaining, LAMBDA e :
                 ~isOperator(e) /\ ToLower(e.s) = <<"-","d","e","l","e","t","e">>)
     THEN Block("find -delete detected", "trash <files>")
     ELSE IF hits # {}
     THEN LET f == CHOOSE x \in hits : \A y \in hits : x <= y
          IN BlockWith("find <flag> <cmd> detected", <<FindFlags[f], remaining[idx(f) + 1].s>>,
                       "trash <files>", <<>>)
     ELSE Null

(***************************************************************************)
(* parser/pipe-checks.ts                                                   *)
(***************************************************************************)
INSECURE_FLAGS ==
  {<<"-","k">>, <<"-","-","i","n","s","e","c","u","r","e">>,
   <<"-","-","n","o","-","c","h","e","c","k","-","c","e","r","t","i","f","i","c","a","t","e">>}

checkUrlCredentials(args) ==
  IF SeqHas(args, LAMBDA arg :
              /\ Includes(arg, <<":","/","/">>)
              /\ Includes(arg, <<"@">>)
              /\ UrlHasUserinfo(arg))
  THEN Block("CREDENTIAL EXPOSURE DETECTED",
             "Commands should not include credentials in URLs. Use environment variables or netrc.")
  ELSE Null

checkTransportSecurity(args) ==
  IF SeqHas(args, LAMBDA arg : StartsWith(arg, W_http))
  THEN Block("INSECURE TRANSPORT DETECTED",
             "Piping plain HTTP content to a shell is dangerous. Use HTTPS.")
  ELSE IF SeqHas(args, LAMBDA arg : arg \in INSECURE_FLAGS)
  THEN Block("INSECURE TRANSPORT DETECTED",
             "Piping to a shell with certificate validation disabled is extremely dangerous.")
  ELSE Null

\* The inner loop of getPipeTargets, from index j: "ctl" when a control
\* operator ends the search, "word" with the first word met, "none" otherwise.
RECURSIVE PipeStage(_, _)
PipeStage(remaining, j) ==
  IF j > Len(remaining) THEN [kind |-> "none", word |-> <<>>]
  ELSE IF isOperator(remaining[j])
  THEN (IF remaining[j].s \in CONTROL_OPERATORS THEN [kind |-> "ctl", word |-> <<>>]
        ELSE IF remaining[j].s \in PIPE_OPERATORS THEN [kind |-> "none", word |-> <<>>]
        ELSE PipeStage(remaining, j + 1))
  ELSE [kind |-> "word", word |-> normalizeCommandName(remaining[j].s)]

RECURSIVE PipeTargetsFrom(_, _, _)
PipeTargetsFrom(remaining, i, targets) ==
  IF i > Len(remaining) THEN targets
  ELSE IF ~isOperator(remaining[i]) THEN PipeTargetsFrom(remaining, i + 1, targets)
  ELSE IF remaining[i].s \in CONTROL_OPERATORS THEN targets
  ELSE IF remaining[i].s \notin PIPE_OPERATORS THEN PipeTargetsFrom(remaining, i + 1, targets)
  ELSE LET st == PipeStage(remaining, i + 1)
       IN IF st.kind = "ctl" THEN targets
          ELSE IF st.kind = "word"
          THEN PipeTargetsFrom(remaining, i + 1, Append(targets, st.word))
          ELSE PipeTargetsFrom(remaining, i + 1, targets)

getPipeTargets(remaining) == PipeTargetsFrom(remaining, 1, <<>>)

\* <<>> for none.
getFirstUrlArg(args) ==
  LET k == FirstIdx(args, LAMBDA arg : StartsWith(arg, W_https) \/ StartsWith(arg, W_http))
  IN IF k = 0 THEN <<>> ELSE args[k]

TrustedPipeAllowed(args, pipeTargets, trustedDomains) ==
  LET url == getFirstUrlArg(args)
      isDirectShellPipe == Len(pipeTargets) = 1 /\ pipeTargets[1] \in SHELL_COMMANDS
  IN url # <<>> /\ isDirectShellPipe /\ isTrustedDomain(url, trustedDomains)

\* checkPipeToShell with the transport check made before the pipe is looked at.
checkPipeToShellTransportFirst(args, remaining, trustedDomains) ==
  LET credentialCheck == checkUrlCredentials(args)
      pipeTargets == getPipeTargets(remaining)
      hasShellPipe == SeqHas(pipeTargets, LAMBDA cmd : cmd \in SHELL_COMMANDS)
      transportCheck == checkTransportSecurity(args)
  IN IF credentialCheck.blocked THEN credentialCheck
     ELSE IF transportCheck.blocked THEN transportCheck
     ELSE IF Len(pipeTargets) = 0 THEN Null
     ELSE IF ~hasShellPipe THEN Null
     ELSE IF TrustedPipeAllowed(args, pipeTargets, trustedDomains) THEN Null
     ELSE Block("PIPE-TO-SHELL DETECTED",
                "Executing remote scripts directly via pipe is dangerous. Download and review the script first.")

checkPipeToShell(args, remaining, trustedDomains) ==
  LET credentialCheck == checkUrlCredentials(args)
      pipeTargets == getPipeTargets(remaining)
      hasShellPipe == SeqHas(pipeTargets, LAMBDA cmd : cmd \in SHELL_COMMANDS)
      transportCheck == checkTransportSecurity(args)
  IN IF credentialCheck.blocked THEN credentialCheck
     ELSE IF Len(pipeTargets) = 0 THEN Null
     ELSE IF ~hasShellPipe THEN Null
     ELSE IF transportCheck.blocked THEN transportCheck
     ELSE IF TrustedPipeAllowed(args, pipeTargets, trustedDomains) THEN Null
     ELSE Block("PIPE-TO-SHELL DETECTED",
                "Executing remote scripts directly via pipe is dangerous. Download and review the script first.")

(***************************************************************************)
(* parser/rules/CoreAstRule.ts: helpers                                    *)
(***************************************************************************)
DANGEROUS_DOWNLOAD_EXECUTORS ==
  SHELL_COMMANDS \cup NON_SHELL_EXECUTORS \cup {<<".">>, W_source, W_exec, W_chmod}

isCommandPrefix(entry) == entry \in {W_sudo, W_xargs, W_command, W_env}

\* The walk without the exemption of git rm.
isGitRmNever(nextEntry) == FALSE

\* nextEntry is a sequence of at most one token (empty for undefined).
isGitRm(nextEntry) ==
  nextEntry # <<>> /\ ~isOperator(nextEntry[1]) /\ ToLower(nextEntry[1].s) = W_rm

sliceUntilOperators(entries, stopOperators) ==
  LET k == FirstIdx(entries, LAMBDA e : isOperator(e) /\ e.s \in stopOperators)
  IN IF k = 0 THEN entries ELSE SubSeq(entries, 1, k - 1)

RECURSIVE CommandArgsFrom(_, _, _)
CommandArgsFrom(entries, i, skipNextForRedirection) ==
  IF i > Len(entries) THEN <<>>
  ELSE IF isOperator(entries[i])
  THEN CommandArgsFrom(entries, i + 1, entries[i].s \in REDIRECTION_OPERATORS)
  ELSE IF skipNextForRedirection THEN CommandArgsFrom(entries, i + 1, FALSE)
  ELSE <<entries[i].s>> \o CommandArgsFrom(entries, i + 1, FALSE)

getCommandArgs(entries) == CommandArgsFrom(entries, 1, FALSE)

\* checkEnvironmentVariable: whether entry is NAME=value, and the VarMap after.
IsAssignment(entry) ==
  LET eq == IndexFrom(entry, "=", 1)
  IN /\ eq # 0
     /\ ~StartsWith(entry, <<"-">>)
     /\ eq > 1
     /\ \A k \in 1..(eq - 1) : IsWordChar(entry[k])

\* The walk that never writes VarMap.
checkEnvironmentVariableNever(entry, vars) == vars

checkEnvironmentVariable(entry, vars) ==
  IF IsAssignment(entry)
  THEN LET eq == IndexFrom(entry, "=", 1)
       IN Assign(vars, SubSeq(entry, 1, eq - 1), Drop(entry, eq))
  ELSE vars

OutputFlagsAlone ==
  {<<"-","o">>, <<"-","O">>, <<"-","-","o","u","t","p","u","t">>,
   <<"-","-","o","u","t","p","u","t","-","d","o","c","u","m","e","n","t">>}
OutputEq == <<"-","-","o","u","t","p","u","t","=">>
OutputDocumentEq == <<"-","-","o","u","t","p","u","t","-","d","o","c","u","m","e","n","t","=">>

\* checkSensitivePathWrite without the glued short forms -o<path> and -O<path>.
checkSensitivePathWriteSeparate(entry, tokens, i) ==
  LET outputPath ==
        IF entry \in OutputFlagsAlone /\ i + 1 <= Len(tokens)
        THEN (IF ~isOperator(tokens[i + 1]) THEN tokens[i + 1].s ELSE <<>>)
        ELSE IF StartsWith(entry, OutputEq) THEN Drop(entry, Len(OutputEq))
        ELSE IF StartsWith(entry, OutputDocumentEq) THEN Drop(entry, Len(OutputDocumentEq))
        ELSE <<>>
  IN IF outputPath # <<>> /\ isSensitivePath(outputPath)
     THEN BlockWith("SENSITIVE PATH TARGETED", <<>>,
                    "Command is attempting to write directly to a critical configuration file:",
                    <<outputPath>>)
     ELSE Null

checkSensitivePathWrite(entry, tokens, i) ==
  LET outputPath ==
        IF entry \in OutputFlagsAlone /\ i + 1 <= Len(tokens)
        THEN (IF ~isOperator(tokens[i + 1]) THEN tokens[i + 1].s ELSE <<>>)
        ELSE IF StartsWith(entry, OutputEq) THEN Drop(entry, Len(OutputEq))
        ELSE IF StartsWith(entry, OutputDocumentEq) THEN Drop(entry, Len(OutputDocumentEq))
        ELSE IF StartsWith(entry, <<"-","o">>) /\ Len(entry) > 2 THEN Drop(entry, 2)
        ELSE IF StartsWith(entry, <<"-","O">>) /\ Len(entry) > 2 THEN Drop(entry, 2)
        ELSE <<>>
  IN IF outputPath # <<>> /\ isSensitivePath(outputPath)
     THEN BlockWith("SENSITIVE PATH TARGETED", <<>>,
                    "Command is attempting to write directly to a critical configuration file:",
                    <<outputPath>>)
     ELSE Null

handleOperator(opEntry, nextEntry, vars, env) ==
  IF /\ opEntry.s = <<"<","(">>
     /\ nextEntry # <<>>
     /\ ~isOperator(nextEntry[1])
     /\ normalizeCommandName(resolveVariable(nextEntry[1].s, vars, env)) \in {W_curl, W_wget}
  THEN Block("PROCESS SUBSTITUTION DETECTED",
             "Executing remote scripts via process substitution is dangerous.")
  ELSE Null

handleBashSubshells(normalizedEntry, commandSegment, vars, env) ==
  IF /\ normalizedEntry \in {W_bash, W_sh, W_zsh}
     /\ SeqHas(commandSegment, LAMBDA item :
                 /\ ~isOperator(item)
                 /\ LET resolved == resolveVariable(item.s, vars, env)
                    IN \/ Includes(resolved, <<"<","(">> \o W_curl)
                       \/ Includes(resolved, <<"<","(">> \o W_wget)
                       \/ Includes(resolved, <<"<"," ","<","(">> \o W_curl)
                       \/ Includes(resolved, <<"<"," ","<","(">> \o W_wget))
  THEN Block("PROCESS SUBSTITUTION DETECTED",
             "Executing remote scripts via process substitution is dangerous.")
  ELSE Null

resolveCmdName(entry, vars, env) == normalizeCommandName(resolveVariable(entry, vars, env))

checkShellContext(resolvedCmd, blocked, snapshot) ==
  IF resolvedCmd \notin blocked /\ HasShellContextEntry(snapshot, resolvedCmd)
  THEN LET ctxEntry == getShellContextEntry(snapshot, resolvedCmd)
           hit == findBlockedTokenInShellContext(ctxEntry, blocked)
       IN IF ctxEntry.kind \in {"alias", "function"} /\ hit # <<>> /\ hit # resolvedCmd
          THEN BlockWith("SHELL CONTEXT OVERRIDE DETECTED", <<>>,
                         "Your shell <kind> for '<cmd>' references '<hit>'. Inspect with: type <cmd>.",
                         <<resolvedCmd, hit>>)
          ELSE Null
  ELSE Null

(***************************************************************************)
(* CoreAstRule.checkDownloadAndExec                                        *)
(***************************************************************************)
Trim(s) ==
  LET keep == {k \in 1..Len(s) : ~IsSpace(s[k])}
  IN IF keep = {} THEN <<>>
     ELSE SubSeq(s, CHOOSE x \in keep : \A y \in keep : x <= y,
                    CHOOSE x \in keep : \A y \in keep : x >= y)

\* .replace(/^['"]|['"]$/g, "")
StripQuotes(a) ==
  LET b == IF a # <<>> /\ a[1] \in {"'", "\""} THEN Tail(a) ELSE a
  IN IF b # <<>> /\ b[Len(b)] \in {"'", "\""} THEN SubSeq(b, 1, Len(b) - 1) ELSE b

\* .replace(/\\/g, "/")
BackslashesToSlashes(c) == [k \in 1..Len(c) |-> IF c[k] = "\\" THEN "/" ELSE c[k]]

\* .replace(/^\.\/+/, "")
StripDotSlashes(d) ==
  LET slashes == {n \in 0..(Len(d) - 1) : \A k \in 2..(1 + n) : d[k] = "/"}
  IN IF StartsWith(d, <<".","/">>)
     THEN Drop(d, 1 + (CHOOSE x \in slashes : \A y \in slashes : x >= y))
     ELSE d

normalizePathLike(value) ==
  Value({StripTrailingSlashes(e) :
           e \in {StripDotSlashes(d) :
                    d \in {BackslashesToSlashes(c) :
                             c \in {StripQuotes(a) : a \in {Trim(value)}}}}})

getPathBase(value) ==
  LET normalized == [k \in 1..Len(value) |-> IF value[k] = "\\" THEN "/" ELSE value[k]]
      last == Drop(normalized, LastIndexOf(normalized, "/", Len(normalized)))
  IN IF last # <<>> THEN last ELSE normalized

isFilesystemTarget(path) ==
  \E normalized \in {normalizePathLike(path)} :
     /\ Len(normalized) > 0
     /\ normalized # <<"-">>
     /\ normalized # <<"/","d","e","v","/","s","t","d","o","u","t">>

referencesAnyTarget(value, targets) ==
  /\ value # <<>>
  /\ ~looksLikeHttpUrl(value)
  /\ \E target \in targets :
        \E normalizedValue \in {normalizePathLike(value)},
           normalizedTarget \in {normalizePathLike(target)} :
          /\ normalizedTarget # <<>>
          /\ \/ normalizedValue = normalizedTarget
             \/ \E valueBase \in {getPathBase(normalizedValue)},
                   targetBase \in {getPathBase(normalizedTarget)} :
                  valueBase # <<>> /\ targetBase # <<>> /\ valueBase = targetBase

\* [handled, consumeNext, path]; path = <<>> stands for undefined or "".
\* next is a sequence of at most one string.
extractExplicitOutputPath(arg, next, downloader) ==
  LET nextPath == IF next = <<>> THEN <<>> ELSE next[1]
      no == [handled |-> FALSE, consumeNext |-> FALSE, path |-> <<>>]
  IN IF arg = <<"-","o">> \/ arg = <<"-","-","o","u","t","p","u","t">>
     THEN [handled |-> TRUE, consumeNext |-> TRUE, path |-> nextPath]
     ELSE IF StartsWith(arg, <<"-","o">>) /\ Len(arg) > 2
     THEN [handled |-> TRUE, consumeNext |-> FALSE, path |-> Drop(arg, 2)]
     ELSE IF StartsWith(arg, OutputEq)
     THEN [handled |-> TRUE, consumeNext |-> FALSE, path |-> Drop(arg, Len(OutputEq))]
     ELSE IF downloader # W_wget THEN no
     ELSE IF arg = <<"-","O">>
             \/ arg = <<"-","-","o","u","t","p","u","t","-","d","o","c","u","m","e","n","t">>
     THEN [handled |-> TRUE, consumeNext |-> TRUE, path |-> nextPath]
     ELSE IF StartsWith(arg, <<"-","O">>) /\ Len(arg) > 2
     THEN [handled |-> TRUE, consumeNext |-> FALSE, path |-> Drop(arg, 2)]
     ELSE IF StartsWith(arg, OutputDocumentEq)
     THEN [handled |-> TRUE, consumeNext |-> FALSE, path |-> Drop(arg, Len(OutputDocumentEq))]
     ELSE no

isRemoteNameRequestedForCurl(arg) ==
  \/ arg = <<"-","O">>
  \/ arg = <<"-","-","r","e","m","o","t","e","-","n","a","m","e">>
  \/ /\ Len(arg) >= 2
     /\ arg[1] = "-"
     /\ \A k \in 2..Len(arg) : arg[k] \in LowerLetters \cup UpperLetters
     /\ Includes(arg, <<"O">>)

\* normalizedPath.split("/").pop()
UrlBasename(url) ==
  Value({Drop(normalizedPath, LastIndexOf(normalizedPath, "/", Len(normalizedPath))) :
           normalizedPath \in {StripTrailingSlashes(UrlPathname(url))}})

getUrlBasenames(args) ==
  {UrlBasename(args[k]) :
     k \in {j \in 1..Len(args) : looksLikeHttpUrl(args[j]) /\ UrlHostname(args[j]) # <<>>}}
    \ {<<>>}

\* The loop of extractDownloadTargets: [targets, hasExplicitOutput, remoteNameRequested].
RECURSIVE DownloadTargetsFrom(_, _, _, _)
DownloadTargetsFrom(resolvedArgs, i, downloader, acc) ==
  IF i > Len(resolvedArgs) THEN acc
  ELSE LET arg == resolvedArgs[i]
           next == IF i + 1 <= Len(resolvedArgs) THEN <<resolvedArgs[i + 1]>> ELSE <<>>
           after(explicit) ==
             IF arg = <<>> THEN [i |-> i + 1, acc |-> acc]
             ELSE IF explicit.handled
             THEN [i |-> IF explicit.consumeNext THEN i + 2 ELSE i + 1,
                   acc |-> IF explicit.path # <<>> /\ isFilesystemTarget(explicit.path)
                           THEN [acc EXCEPT !.targets = @ \cup {explicit.path},
                                            !.hasExplicitOutput = TRUE]
                           ELSE IF explicit.path # <<>>
                           THEN [acc EXCEPT !.hasExplicitOutput = TRUE]
                           ELSE acc]
             ELSE [i |-> i + 1,
                   acc |-> IF downloader = W_curl /\ isRemoteNameRequestedForCurl(arg)
                           THEN [acc EXCEPT !.remoteNameRequested = TRUE] ELSE acc]
       IN Value({DownloadTargetsFrom(resolvedArgs, a.i, downloader, a.acc) :
                   a \in {after(extractExplicitOutputPath(arg, next, downloader))}})

extractDownloadTargets(commandArgs, downloader, vars, env) ==
  LET targets(resolvedArgs, acc) ==
        acc.targets
          \cup (IF \/ downloader = W_wget /\ ~acc.hasExplicitOutput
                   \/ downloader = W_curl /\ acc.remoteNameRequested
                THEN getUrlBasenames(resolvedArgs) ELSE {})
      scan(resolvedArgs) ==
        Value({targets(resolvedArgs, acc) :
                 acc \in {DownloadTargetsFrom(resolvedArgs, 1, downloader,
                            [targets |-> {}, hasExplicitOutput |-> FALSE,
                             remoteNameRequested |-> FALSE])}})
  IN Value({scan(resolvedArgs) :
              resolvedArgs \in {[k \in 1..Len(commandArgs) |->
                                  resolveVariable(commandArgs[k], vars, env)]}})

\* The first string that is neither NAME=... nor a prefix word: its index in
\* strings, 0 for none.
\* /^\w+=/.test(tok)
StartsWithAssignment(tok) ==
  \E eq \in {IndexFrom(tok, "=", 1)} : eq > 1 /\ \A k \in 1..(eq - 1) : IsWordChar(tok[k])

extractNextCommand(entries, vars, env) ==
  LET pick(strings, k) ==
        IF k = 0 THEN [found |-> FALSE, token |-> <<>>, name |-> <<>>, args |-> <<>>]
        ELSE [found |-> TRUE, token |-> strings[k],
              name |-> normalizeCommandName(strings[k]),
              args |-> Drop(strings, k)]
      first(strings) ==
        Value({pick(strings, k) :
                 k \in {FirstIdx(strings, LAMBDA tok :
                          ~StartsWithAssignment(tok) /\ ~isCommandPrefix(normalizeCommandName(tok)))}})
  IN Value({first(strings) :
              strings \in {[k \in 1..Len(args) |-> resolveVariable(args[k], vars, env)] :
                             args \in {getCommandArgs(
                                         sliceUntilOperators(entries, CONTROL_OPERATORS))}}})

checkDownloadAndExec(remaining, commandArgs, downloader, vars, env) ==
  LET hit == Block("DOWNLOAD-AND-EXEC DETECTED",
                   "Downloading and executing a script in one command is dangerous. Review the script first.")
      executes(nextCommand, downloadTargets) ==
        IF ~nextCommand.found THEN Null
        ELSE IF referencesAnyTarget(nextCommand.token, downloadTargets) THEN hit
        ELSE IF nextCommand.name \notin DANGEROUS_DOWNLOAD_EXECUTORS THEN Null
        ELSE IF SeqHas(nextCommand.args, LAMBDA arg : referencesAnyTarget(arg, downloadTargets))
        THEN hit
        ELSE Null
      follows(opIdx, downloadTargets) ==
        IF opIdx = 0 THEN Null
        ELSE Value({executes(nextCommand, downloadTargets) :
                      nextCommand \in {extractNextCommand(Drop(remaining, opIdx), vars, env)}})
      downloads(downloadTargets) ==
        IF downloadTargets = {} THEN Null
        ELSE Value({follows(opIdx, downloadTargets) :
                      opIdx \in {FirstIdx(remaining, LAMBDA e :
                                    isOperator(e) /\ e.s \in CONTROL_OPERATORS)}})
  IN Value({downloads(downloadTargets) :
              downloadTargets \in {extractDownloadTargets(commandArgs, downloader, vars, env)}})

handleCurlWget(normalizedEntry, remaining, commandSegment, currentCommandEntries, trustedDomains, vars, env) ==
  IF normalizedEntry \notin {W_curl, W_wget} THEN Null
  ELSE LET check(currentArgs, pipeCheck) ==
             IF pipeCheck.blocked THEN pipeCheck
             ELSE checkDownloadAndExec(remaining, currentArgs, normalizedEntry, vars, env)
           pipe(currentArgs) ==
             Value({check(currentArgs, pipeCheck) :
                      pipeCheck \in {checkPipeToShell(currentArgs, commandSegment, trustedDomains)}})
       IN Value({pipe(currentArgs) : currentArgs \in {getCommandArgs(currentCommandEntries)}})

(***************************************************************************)
(* shell-quote's parse(command, key => "${key}"), the tokenizer of the     *)
(* analyzer.  The library is not among the source files; this follows the  *)
(* specification's tokenizer: quoting, backslash escapes, operators,       *)
(* variable references kept as ${NAME}, and a failure on a bad             *)
(* substitution.  Comments (#) are outside the commands analysed here.     *)
(***************************************************************************)
MetaChars == {"|", "&", ";", "(", ")", "<", ">"}

\* The control operators, in the order in which they are tried.
OPERATOR_TEXTS ==
  << <<"|","|">>, <<"&","&">>, <<";",";">>, <<"|","&">>, <<"<","(">>,
     <<"<","<","<">>, <<">",">">>, <<">","&">>, <<"<","&">>,
     <<"&">>, <<";">>, <<"(">>, <<")">>, <<"|">>, <<"<">>, <<">">> >>

\* The operator that starts at pos; <<>> for none.
OperatorAt(text, pos) ==
  LET hits == {k \in 1..Len(OPERATOR_TEXTS) : HasAt(text, pos, OPERATOR_TEXTS[k])}
  IN IF hits = {} THEN <<>>
     ELSE OPERATOR_TEXTS[CHOOSE x \in hits : \A y \in hits : x <= y]

\* parseEnvVar at the "$" at pos: [next, out, bad].  The word ends at wordEnd.
EnvVarAt(text, pos, wordEnd) ==
  LET c == IF pos + 1 <= wordEnd THEN text[pos + 1] ELSE ""
      close == IndexFrom(text, "}", pos + 2)
      n == RunLen(SubSeq(text, 1, wordEnd), pos + 1, {}, TRUE)
      ref(name) == <<"$", "{">> \o name \o <<"}">>
  IN IF c = "{"
     THEN (IF close = 0 \/ close > wordEnd \/ close = pos + 2
           THEN [next |-> pos, out |-> <<>>, bad |-> TRUE]
           ELSE [next |-> close + 1, out |-> ref(SubSeq(text, pos + 2, close - 1)),
                 bad |-> FALSE])
     ELSE IF c \in {"*", "@", "#", "?", "$", "!", "_", "-"}
     THEN [next |-> pos + 2, out |-> ref(<<c>>), bad |-> FALSE]
     ELSE [next |-> pos + 1 + n, out |-> ref(SubSeq(text, pos + 1, pos + n)), bad |-> FALSE]

\* How many characters from pos on, up to last, are outside stop.
PlainRun(text, pos, last, stop) ==
  LET hits == {k \in pos..last : text[k] \in stop}
  IN IF hits = {} THEN last - pos + 1
     ELSE (CHOOSE x \in hits : \A y \in hits : x <= y) - pos

\* Where the word that starts at pos ends: the position before the first
\* unquoted blank or operator character.
RECURSIVE WordEnd(_, _)
WordEnd(text, pos) ==
  IF pos > Len(text) THEN Len(text)
  ELSE IF IsSpace(text[pos]) \/ text[pos] \in MetaChars THEN pos - 1
  ELSE IF text[pos] \in {"'", "\""}
  THEN Value({IF close = 0 THEN Len(text) ELSE WordEnd(text, close + 1) :
                close \in {IndexFrom(text, text[pos], pos + 1)}})
  ELSE IF text[pos] = "\\" THEN WordEnd(text, pos + 2)
  ELSE Value({WordEnd(text, pos + n) :
                n \in {PlainRun(text, pos, Len(text),
                                MetaChars \cup {" ", "'", "\"", "\\"})}})

\* The scanner over one word text[pos..wordEnd]: [out, bad, glob].  A run of
\* characters that are copied as they are is taken in one step.
RECURSIVE ScanWord(_, _, _, _, _, _)
ScanWord(text, pos, wordEnd, quote, out, glob) ==
  IF pos > wordEnd THEN [out |-> out, bad |-> FALSE, glob |-> glob]
  ELSE LET c == text[pos]
           d == IF pos + 1 <= wordEnd THEN <<text[pos + 1]>> ELSE <<>>
           copy(n, q) ==
             Value({ScanWord(text, pos + n, wordEnd, q, o, g) :
                      o \in {out \o SubSeq(text, pos, pos + n - 1)},
                      g \in {glob \/ (q = "" /\ \E k \in pos..(pos + n - 1) :
                                                   text[k] \in {"*", "?"})}})
           var(v) ==
             IF v.bad THEN [out |-> out, bad |-> TRUE, glob |-> glob]
             ELSE Value({ScanWord(text, v.next, wordEnd, quote, o, glob) :
                           o \in {out \o v.out}})
       IN IF quote = "'"
          THEN (IF c = "'" THEN ScanWord(text, pos + 1, wordEnd, "", out, glob)
                ELSE copy(PlainRun(text, pos, wordEnd, {"'"}), quote))
          ELSE IF quote = "\"" /\ c = "\""
          THEN ScanWord(text, pos + 1, wordEnd, "", out, glob)
          ELSE IF quote = "\"" /\ c = "\\"
          THEN Value({ScanWord(text, pos + 2, wordEnd, quote, o, glob) :
                        o \in {out \o (IF d # <<>> /\ d[1] \in {"\"", "\\", "$"}
                                       THEN d ELSE <<"\\">> \o d)}})
          ELSE IF c = "$"
          THEN Value({var(v) : v \in {EnvVarAt(text, pos, wordEnd)}})
          ELSE IF quote = "\""
          THEN copy(PlainRun(text, pos, wordEnd, {"\"", "\\", "$"}), quote)
          ELSE IF c \in {"'", "\""}
          THEN ScanWord(text, pos + 1, wordEnd, c, out, glob)
          ELSE IF c = "\\"
          THEN Value({ScanWord(text, pos + 2, wordEnd, "", o, glob) : o \in {out \o d}})
          ELSE copy(PlainRun(text, pos, wordEnd, {"'", "\"", "\\", "$"}), "")

\* The token that starts at pos and the position after it: [bad, token, next].
TokenAt(text, pos) ==
  LET op == OperatorAt(text, pos)
      e == WordEnd(text, pos)
      w == ScanWord(text, pos, e, "", <<>>, FALSE)
  IN IF op # <<>> THEN [bad |-> FALSE, token |-> Op(op), next |-> pos + Len(op)]
     ELSE [bad |-> w.bad,
           token |-> IF w.glob THEN Op(<<"g","l","o","b">>) ELSE Word(w.out),
           next |-> e + 1]

\* [throws, tokens]
RECURSIVE ParseFrom(_, _, _)
ParseFrom(text, pos, acc) ==
  IF pos > Len(text) THEN [throws |-> FALSE, tokens |-> acc]
  ELSE IF IsSpace(text[pos]) THEN ParseFrom(text, pos + 1, acc)
  ELSE Value({IF tk.bad THEN [throws |-> TRUE, tokens |-> <<>>]
              ELSE ParseFrom(text, tk.next, Append(acc, tk.token)) :
                tk \in {TokenAt(text, pos)}})

parse(command) == ParseFrom(command, 1, <<>>)

(***************************************************************************)
(* parser/subshell.ts                                                      *)
(***************************************************************************)
\* The command handed to the callback, as a sequence of at most one string.
\* checkSubshellCommand that takes -e for -c as well.
checkSubshellCommandAnyFlag(entries, startIndex) ==
  LET rest == Drop(entries, startIndex)
      cIdx == FirstIdx(rest, LAMBDA entry :
                         ~isOperator(entry) /\ entry.s \in {<<"-","c">>, <<"-","e">>})
  IN IF cIdx = 0 \/ startIndex + cIdx + 1 > Len(entries) THEN <<>>
     ELSE IF isOperator(entries[startIndex + cIdx + 1]) THEN <<>>
     ELSE <<entries[startIndex + cIdx + 1].s>>

checkSubshellCommand(entries, startIndex) ==
  LET rest == Drop(entries, startIndex)
      cIdx == FirstIdx(rest, LAMBDA entry : ~isOperator(entry) /\ entry.s = <<"-","c">>)
  IN IF cIdx = 0 \/ startIndex + cIdx + 1 > Len(entries) THEN <<>>
     ELSE IF isOperator(entries[startIndex + cIdx + 1]) THEN <<>>
     ELSE <<entries[startIndex + cIdx + 1].s>>

(***************************************************************************)
(* The rules that work on the raw command.  A command is its text and its  *)
(* length; the length exceeds Len(text) when the text is followed by       *)
(* trailing blanks, which no pattern below can match into.                 *)
(***************************************************************************)
HomographRule(command, len) ==
  IF hasHomograph(command, len)
  THEN Block("HOMOGRAPH ATTACK DETECTED",
             "Suspicious character found. This may be a visually similar domain masking a malicious source.")
  ELSE Null

TerminalInjectionRule(command) ==
  IF checkTerminalInjection(command) # ""
  THEN Block(checkTerminalInjection(command),
             "Command contains ANSI escape sequences or hidden characters that can manipulate terminal output.")
  ELSE Null

\* RawThreatRule.interpreters, each alternative as a pattern prefix.
RawThreatInterpreters ==
  {<<WordB, Lit({i}), WordB>> : i \in SHELL_INTERPRETERS \cup {W_perl, W_ruby, W_node, W_bun}}
    \cup {<<WordB, Lit({W_python}), Ver, WordB>>, <<WordB, Lit({W_php}), Ver, WordB>>}

CommandSubstitutionPatterns(open) ==
  {pre \o <<Ws(10), Lit(CODE_EXECUTION_FLAGS), Ws(10), OptQuote, Lit({open}),
            Lit(DOWNLOAD_COMMANDS), WordB>> : pre \in RawThreatInterpreters}

\* RawThreatRule.patterns: each entry is the set of the alternatives of its
\* regular expression, with its reason and suggestion.
RawThreatPatterns ==
  << [pattern |-> {POWERSHELL_PATTERNS.encodedCommand},
      reason |-> "ENCODED POWERSHELL COMMAND DETECTED",
      suggestion |-> "Encoded PowerShell payloads are high-risk. Decode and review before running."],
     [pattern |-> {EVAL_PATTERNS.withCurl},
      reason |-> "EVAL-PIPE-TO-SHELL DETECTED",
      suggestion |-> "Avoid eval with remote content. Download and review the script first."],
     [pattern |-> {EVAL_PATTERNS.withWget},
      reason |-> "EVAL-PIPE-TO-SHELL DETECTED",
      suggestion |-> "Avoid eval with remote content. Download and review the script first."],
     [pattern |-> {EVAL_PATTERNS.withBacktickCurl},
      reason |-> "EVAL-PIPE-TO-SHELL DETECTED",
      suggestion |-> "Avoid eval with remote content. Download and review the script first."],
     [pattern |-> {EVAL_PATTERNS.withBacktickWget},
      reason |-> "EVAL-PIPE-TO-SHELL DETECTED",
      suggestion |-> "Avoid eval with remote content. Download and review the script first."],
     [pattern |-> CommandSubstitutionPatterns(<<"$","(">>),
      reason |-> "COMMAND SUBSTITUTION DETECTED",
      suggestion |-> "Executing remote scripts via command substitution is dangerous."],
     [pattern |-> CommandSubstitutionPatterns(<<"BQ">>),
      reason |-> "COMMAND SUBSTITUTION DETECTED",
      suggestion |-> "Executing remote scripts via command substitution is dangerous."],
     [pattern |-> {PIPE_PATTERNS.base64ToShell},
      reason |-> "ENCODED PIPE-TO-SHELL DETECTED",
      suggestion |-> "Decoding remote content and piping to a shell is dangerous."],
     [pattern |-> {PIPE_PATTERNS.xxdToShell},
      reason |-> "ENCODED PIPE-TO-SHELL DETECTED",
      suggestion |-> "Decoding remote content and piping to a shell is dangerous."],
     [pattern |-> {PIPE_PATTERNS.downloadToInterpreter},
      reason |-> "PIPE-TO-INTERPRETER DETECTED",
      suggestion |-> "Piping remote content to an interpreter is dangerous. Download and review first."],
     [pattern |-> {PIPE_PATTERNS.sedToShell},
      reason |-> "SED-PIPE-TO-SHELL DETECTED",
      suggestion |-> "Piping sed output to a shell can be dangerous. Review the command carefully."],
     [pattern |-> {PIPE_PATTERNS.awkToShell},
      reason |-> "AWK-PIPE-TO-SHELL DETECTED",
      suggestion |-> "Piping awk output to a shell can be dangerous. Review the command carefully."],
     [pattern |-> {PROCESS_SUBSTITUTION_PATTERNS.standard},
      reason |-> "PROCESS SUBSTITUTION DETECTED",
      suggestion |-> "Process substitution with remote content is dangerous."],
     [pattern |-> {PIPE_PATTERNS.opensslToShell},
      reason |-> "OPENSSL-PIPE-TO-SHELL DETECTED",
      suggestion |-> "Piping openssl output to a shell is suspicious. Review carefully."],
     [pattern |-> {PIPE_PATTERNS.tarToShell},
      reason |-> "TAR-PIPE-TO-SHELL DETECTED",
      suggestion |-> "Piping tar output to a shell is dangerous. Extract first, then review."] >>

\* /\b(?:sh|bash|zsh|dash|fish|pwsh|powershell)\b\s{0,10}-c\b/gi
SubshellInvocation ==
  <<WordB, Lit(SHELL_COMMANDS), WordB, Ws(10), Lit({<<"-","c">>}), WordB>>
\* /\b(?:rm|shred|unlink|wipe|srm|dd)\b/i
DestructiveVerb ==
  <<WordB, Lit({W_rm, W_shred, W_unlink, W_wipe, W_srm, W_dd}), WordB>>

\* RawThreatRule.check without its guard on the length of the command.
RawThreatRuleUnguarded(command, len) ==
  LET hits == {k \in 1..Len(RawThreatPatterns) :
                 \E p \in RawThreatPatterns[k].pattern : safeRegexTest(p, command, len)}
      first == CHOOSE x \in hits : \A y \in hits : x <= y
  IN IF /\ Cardinality(MatchStarts(SubshellInvocation, command)) >= 4
        /\ RegexTest(DestructiveVerb, command)
     THEN Block("DEEP SUBSHELL DETECTED",
                "Nested shells can conceal destructive commands. Review the full command before running.")
     ELSE IF hits # {}
     THEN Block(RawThreatPatterns[first].reason, RawThreatPatterns[first].suggestion)
     ELSE Null

RawThreatRule(command, len) ==
  LET hits == {k \in 1..Len(RawThreatPatterns) :
                 \E p \in RawThreatPatterns[k].pattern : safeRegexTest(p, command, len)}
      first == CHOOSE x \in hits : \A y \in hits : x <= y
  IN IF len > MAX_INPUT_LENGTH
     THEN Block("COMMAND TOO LONG",
                "The command exceeds the analysis limit. Inspect manually or simplify.")
     ELSE IF /\ Cardinality(MatchStarts(SubshellInvocation, command)) >= 4
             /\ RegexTest(DestructiveVerb, command)
     THEN Block("DEEP SUBSHELL DETECTED",
                "Nested shells can conceal destructive commands. Review the full command before running.")
     ELSE IF hits # {}
     THEN Block(RawThreatPatterns[first].reason, RawThreatPatterns[first].suggestion)
     ELSE Null

\* A custom rule is [pattern, valid, suggestion]: valid is whether
\* new RegExp(pattern) succeeds.
CustomRule(command, customRules) ==
  LET hits == {k \in 1..Len(customRules) :
                 customRules[k].valid /\ RegexTest(customRules[k].pattern, command)}
  IN IF hits = {} THEN Null
     ELSE Block("CUSTOM RULE VIOLATION",
                customRules[CHOOSE x \in hits : \A y \in hits : x <= y].suggestion)

(***************************************************************************)
(* CoreAstRule.handleCommand and one iteration of CoreAstRule.check.       *)
(* sys is what the analysis reads outside its arguments: process.env, the  *)
(* paths git reports as changed, and the shell-context snapshot.           *)
(***************************************************************************)
\* handleCommand without its test of config.allowed.
handleCommandIgnoringAllowed(entry, commandEntries, config, scope, sys) ==
  LET return(r) == [result |-> r, subshell |-> <<>>]
      decide(resolvedCmd, args) ==
        LET ctxCheck == checkShellContext(resolvedCmd, config.blocked, sys.snapshot)
            blockedCheck == checkBlockedCommand(resolvedCmd, args, config.blocked,
                                                config.threshold, sys.dirty)
            findCheck == IF resolvedCmd = W_find
                         THEN checkFindCommand(commandEntries, config.blocked) ELSE Null
        IN IF ctxCheck.blocked THEN return(ctxCheck)
           ELSE IF blockedCheck.blocked THEN return(blockedCheck)
           ELSE IF findCheck.blocked THEN return(findCheck)
           ELSE IF resolvedCmd \in SHELL_COMMANDS
           THEN [result |-> Null, subshell |-> checkSubshellCommand(commandEntries, 0)]
           ELSE return(Null)
  IN Value({decide(v.resolvedCmd, v.args) :
              v \in {[resolvedCmd |-> resolveCmdName(entry, scope, sys.env),
                      args |-> getCommandArgs(commandEntries)]}})

\* [result, subshell]: subshell is the command handed to recursiveCheck, as a
\* sequence of at most one string; the recursive call itself is a step of the
\* analysis below.
handleCommand(entry, commandEntries, config, scope, sys) ==
  LET return(r) == [result |-> r, subshell |-> <<>>]
      decide(resolvedCmd, args) ==
        LET ctxCheck == checkShellContext(resolvedCmd, config.blocked, sys.snapshot)
            blockedCheck == checkBlockedCommand(resolvedCmd, args, config.blocked,
                                                config.threshold, sys.dirty)
            findCheck == IF resolvedCmd = W_find
                         THEN checkFindCommand(commandEntries, config.blocked) ELSE Null
        IN IF ctxCheck.blocked THEN return(ctxCheck)
           ELSE IF resolvedCmd \in config.allowed THEN return(Null)
           ELSE IF blockedCheck.blocked THEN return(blockedCheck)
           ELSE IF findCheck.blocked THEN return(findCheck)
           ELSE IF resolvedCmd \in SHELL_COMMANDS
           THEN [result |-> Null, subshell |-> checkSubshellCommand(commandEntries, 0)]
           ELSE return(Null)
  IN Value({decide(v.resolvedCmd, v.args) :
              v \in {[resolvedCmd |-> resolveCmdName(entry, scope, sys.env),
                      args |-> getCommandArgs(commandEntries)]}})

\* One iteration of the while loop of CoreAstRule.check on frame f:
\*   kind "block": check returns result;
\*   kind "go":    the loop goes on at index i with scope and nmc;
\*   kind "call":  handleCommand calls recursiveCheck(cmd, depth + 1).
\* handled is the resolved name handleCommand was called with, if it was.
CoreAstStep(f, config, sys) ==
  LET tokens == f.tokens
      i == f.i
      entry == tokens[i]
      nextEntry == IF i + 1 <= Len(tokens) THEN <<tokens[i + 1]>> ELSE <<>>
      go(j, scope, nmc) ==
        [kind |-> "go", result |-> Null, i |-> j, scope |-> scope, nmc |-> nmc,
         cmd |-> <<>>, handled |-> <<>>]
      block(r, scope, handled) ==
        [kind |-> "block", result |-> r, i |-> i, scope |-> scope, nmc |-> FALSE,
         cmd |-> <<>>, handled |-> handled]
      opResult == handleOperator(entry, nextEntry, f.scope, sys.env)
      assigned == checkEnvironmentVariable(entry.s, f.scope)
      pathCheck == checkSensitivePathWrite(entry.s, tokens, i)
      resolved == resolveVariable(entry.s, f.scope, sys.env)
      remaining == Drop(tokens, i)
      commandSegment == sliceUntilOperators(remaining, CONTROL_OPERATORS)
      \* the locals of the iteration once a command name is expected
      locals ==
        [resolvedEntry |-> IF resolved # <<>> THEN resolved ELSE entry.s,
         remaining |-> remaining,
         commandSegment |-> commandSegment,
         currentCommandEntries |->
           sliceUntilOperators(commandSegment, COMMAND_BOUNDARY_OPERATORS)]
      command(v) ==
        LET normalizedEntry == normalizeCommandName(v.resolvedEntry)
            curlCheck == handleCurlWget(normalizedEntry, v.remaining, v.commandSegment,
                                        v.currentCommandEntries, config.trustedDomains,
                                        f.scope, sys.env)
            subCheck == handleBashSubshells(normalizedEntry, v.commandSegment,
                                            f.scope, sys.env)
            handled == <<resolveCmdName(v.resolvedEntry, f.scope, sys.env)>>
            after(commandResult) ==
              IF commandResult.result.blocked
              THEN block(commandResult.result, f.scope, handled)
              ELSE IF commandResult.subshell # <<>>
              THEN [kind |-> "call", result |-> Null, i |-> i, scope |-> f.scope,
                    nmc |-> FALSE, cmd |-> commandResult.subshell, handled |-> handled]
              ELSE [go(i + 1, f.scope, FALSE) EXCEPT !.handled = handled]
        IN IF curlCheck.blocked THEN block(curlCheck, f.scope, <<>>)
           ELSE IF subCheck.blocked THEN block(subCheck, f.scope, <<>>)
           ELSE IF isCommandPrefix(normalizedEntry) THEN go(i + 1, f.scope, TRUE)
           ELSE IF normalizedEntry = W_git
                   /\ isGitRm(IF v.currentCommandEntries = <<>> THEN <<>>
                              ELSE <<v.currentCommandEntries[1]>>)
           THEN go(i + 2, f.scope, FALSE)
           ELSE Value({after(r) : r \in {handleCommand(v.resolvedEntry,
                                           v.currentCommandEntries, config, f.scope, sys)}})
  IN IF isOperator(entry)
     THEN (IF opResult.blocked THEN block(opResult, f.scope, <<>>)
           ELSE go(i + 1, f.scope, TRUE))
     ELSE IF ~f.nmc
     THEN (IF pathCheck.blocked THEN block(pathCheck, assigned, <<>>)
           ELSE go(i + 1, assigned, FALSE))
     ELSE IF IsAssignment(entry.s) THEN go(i + 1, assigned, TRUE)
     ELSE Value({command(v) : v \in {locals}})

(***************************************************************************)
(* parser/analyzer.ts                                                      *)
(***************************************************************************)
\* The rules with CustomRule declared for the phase after parsing.
rulesWithCustomPost ==
  << [name |-> "HomographRule", phase |-> "undefined"],
     [name |-> "TerminalInjectionRule", phase |-> "pre"],
     [name |-> "RawThreatRule", phase |-> "pre"],
     [name |-> "CustomRule", phase |-> "post"],
     [name |-> "CoreAstRule", phase |-> "post"] >>

\* The rules in declaration order.  HomographRule and CustomRule declare no
\* phase, so their phase is neither "pre" nor "post".
rules ==
  << [name |-> "HomographRule", phase |-> "undefined"],
     [name |-> "TerminalInjectionRule", phase |-> "pre"],
     [name |-> "RawThreatRule", phase |-> "pre"],
     [name |-> "CustomRule", phase |-> "undefined"],
     [name |-> "CoreAstRule", phase |-> "post"] >>

DEFAULT_THRESHOLD == 50
DEFAULT_MAX_SUBSHELL_DEPTH == 5

\* toConfig: the fields a caller leaves out take their defaults.  A partial
\* context is a record whose absent fields are listed in absent.
toConfig(context, absent) ==
  [blocked |-> IF "blocked" \in absent THEN DEFAULT_BLOCKED ELSE context.blocked,
   allowed |-> IF "allowed" \in absent THEN {} ELSE context.allowed,
   trustedDomains |-> IF "trustedDomains" \in absent
                      THEN DEFAULT_TRUSTED_DOMAINS ELSE context.trustedDomains,
   threshold |-> IF "threshold" \in absent THEN DEFAULT_THRESHOLD ELSE context.threshold,
   customRules |-> IF "customRules" \in absent THEN <<>> ELSE context.customRules,
   maxSubshellDepth |-> IF "maxSubshellDepth" \in absent
                        THEN DEFAULT_MAX_SUBSHELL_DEPTH ELSE context.maxSubshellDepth]

\* rule.check(context) for a rule that works on the raw command.
RuleCheck(name, f, config) ==
  CASE name = "HomographRule" -> HomographRule(f.command, f.len)
    [] name = "TerminalInjectionRule" -> TerminalInjectionRule(f.command)
    [] name = "RawThreatRule" -> RawThreatRule(f.command, f.len)
    [] OTHER -> CustomRule(f.command, config.customRules)

DepthLimitExceeded ==
  [Block("SUBSHELL DEPTH LIMIT EXCEEDED",
         "Command contains nested subshells beyond the analysis limit. Simplify the command, or inspect it manually before running.")
     EXCEPT !.rule = "Analyzer"]

MalformedSyntax ==
  [Block("MALFORMED COMMAND SYNTAX", "Command contains invalid shell syntax.")
     EXCEPT !.rule = "Analyzer"]

\* A call of checkDestructive(command, depth, config) at its first statement.
Frame(command, len, depth) ==
  [command |-> command, len |-> len, depth |-> depth, pc |-> "depth", ri |-> 1,
   tokens |-> <<>>, i |-> 1, scope |-> <<>>, nmc |-> TRUE, result |-> Null]

\* The depth check that never fires, and the one that fires one level late.
DepthNeverExceeds(depth, config) == FALSE
DepthExceedsLate(depth, config) == depth > config.maxSubshellDepth + 1

\* if (depth > maxDepth)
DepthExceeds(depth, config) == depth > config.maxSubshellDepth

(***************************************************************************)
(* The commands, configurations and surroundings analysed.                 *)
(***************************************************************************)
MaxDepthBound == 1
MaxInputDepth == 1
SmallThreshold == 1

LowerToUpper ==
  [c \in LowerLetters |-> CHOOSE u \in UpperLetters : UpperToLower[u] = c]
ToUpper(s) == [k \in 1..Len(s) |-> IF s[k] \in LowerLetters THEN LowerToUpper[s[k]] ELSE s[k]]

X == <<"x">>
Y == <<"y">>
SQ(s) == <<"'">> \o s \o <<"'">>
DQ(s) == <<"\"">> \o s \o <<"\"">>
Assignment(name, value) == name \o <<"=">> \o value
W_V == <<"V">>
W_A1 == <<"A","=","1">>
SubshellFlag == <<"-","c">>
Semi == <<";">>
Pipe == <<"|">>

\* The ways a command line reaches the command word b with arguments args.
PrefixChains ==
  {<<>>, <<W_sudo>>, <<W_xargs>>, <<W_command, W_env>>, <<W_A1>>, <<W_sudo, W_A1>>}

NameForms(b) ==
  {b, <<"\\">> \o b, <<"/","b","i","n","/">> \o b, <<".","/">> \o b, ToUpper(b)}

ReachCommands(b, args) ==
  {JoinSp(pre \o <<n>> \o args) : pre \in PrefixChains, n \in NameForms(b)}
    \cup {JoinSp(pre \o <<Assignment(W_V, b) \o Semi, ref>> \o args) :
            pre \in PrefixChains, ref \in {<<"$","V">>, <<"$","{","V","}">>}}

ArgLists == {<<X>>, <<W_rm, X>>, <<ToUpper(W_rm), X>>}

\* curl -sSL https://h/p | bash
CurlPipeBash(h, p) ==
  JoinSp(<<W_curl, <<"-","s","S","L">>, W_https \o h \o <<"/">> \o p, Pipe, W_bash>>)

Hosts ==
  {W_githubcom, <<"r","a","w",".">> \o W_githubcom, <<"a">> \o W_githubcom,
   <<"G","i","t","H","u","b",".","c","o","m">>, <<"e","v","i","l",".","c","o">>}
UrlPaths == {<<"p">>, W_sed}

BashC(body) == JoinSp(<<W_bash, SubshellFlag, body>>)

SubshellCommands ==
  {BashC(W_ls),
   BashC(SQ(JoinSp(<<W_rm, X>>))),
   BashC(DQ(BashC(W_ls))),
   BashC(DQ(BashC(SQ(BashC(W_ls))))),
   JoinSp(<<BashC(W_ls), Semi, BashC(W_ls), Semi, BashC(W_ls)>>),
   JoinSp(<<W_A1, W_sh, SubshellFlag>>)}

RawCommands ==
  {JoinSp(<<W_ls, <<"ESC","[">>>>),
   JoinSp(<<W_ls, <<"x","ZW">>>>),
   JoinSp(<<W_ls, <<"a","CYR","p",".","c","o">>>>),
   JoinSp(<<W_ls, <<"$","{","x">>>>),
   JoinSp(<<W_ls, <<"ESC","[">>, <<"$","{","x">>>>),
   JoinSp(<<W_eval, <<"$","(">> \o W_curl, <<"u",")">>>>),
   JoinSp(<<W_base64, <<"-","d">>, Pipe, W_sh>>),
   JoinSp(<<W_curl, W_https \o <<"a","CYR","p",".","c","o","/","i">>, Pipe, W_bash>>)}

PlainCommands ==
  {W_ls, JoinSp(<<W_ls, X>>), JoinSp(<<W_rm, X, Y>>),
   JoinSp(<<W_rm, <<"/","e","t","c">>>>),
   JoinSp(<<W_git, W_rm, X>>), JoinSp(<<W_sudo, ToUpper(W_git), ToUpper(W_rm), X>>),
   JoinSp(<<W_git, X>>), JoinSp(<<W_git, W_rm, X, Semi, W_rm, Y>>),
   JoinSp(<<<<"$","V">>, X>>),
   JoinSp(<<W_find, X, <<"-","e","x","e","c">>, W_rm>>),
   JoinSp(<<W_wget, W_https \o W_githubcom \o <<"/","i">>, <<"&","&">>, W_sh, <<"i">>>>),
   JoinSp(<<W_curl, <<"-","o">>, <<"~","/",".","b","a","s","h","r","c">>,
            W_https \o W_githubcom>>),
   JoinSp(<<W_bash, <<"<","(">> \o W_curl, <<"u",")">>>>)}

Commands ==
  ReachCommands(W_rm, <<X>>)
    \cup {CurlPipeBash(h, p) : h \in Hosts, p \in UrlPaths}
    \cup SubshellCommands \cup RawCommands \cup PlainCommands

\* The commands that are also analysed with trailing blanks up to and beyond
\* MAX_INPUT_LENGTH, and those also analysed from a depth above 0.
PaddedCommands ==
  {W_ls, JoinSp(<<W_rm, X>>), JoinSp(<<W_ls, <<"ESC","[">>>>),
   JoinSp(<<W_ls, <<"$","{","x">>>>), CurlPipeBash(W_githubcom, <<"p">>),
   JoinSp(<<W_base64, <<"-","d">>, Pipe, W_sh>>)}
Lengths(command) ==
  {Len(command)} \cup
    (IF command \in PaddedCommands THEN {MAX_INPUT_LENGTH, MAX_INPUT_LENGTH + 1} ELSE {})
DeepCommands == {W_ls, BashC(W_ls), JoinSp(<<W_rm, X>>)}
Depths(command) == IF command \in DeepCommands THEN 0..MaxInputDepth ELSE {0}

\* A custom rule /ls/, one whose pattern does not compile, /x/ with a text.
CustomRuleSets ==
  { <<[pattern |-> <<LitCs({W_ls})>>, valid |-> TRUE, suggestion |-> ""]>>,
    <<[pattern |-> <<LitCs({W_rm})>>, valid |-> FALSE, suggestion |-> "Use trash."],
      [pattern |-> <<LitCs({X})>>, valid |-> TRUE, suggestion |-> "Do not touch x."]>> }

NoContext ==
  [blocked |-> {}, allowed |-> {}, trustedDomains |-> <<>>, threshold |-> 0,
   customRules |-> <<>>, maxSubshellDepth |-> 0]
AllFields ==
  {"blocked", "allowed", "trustedDomains", "threshold", "customRules", "maxSubshellDepth"}

\* The partial contexts handed to checkDestructive: [context, absent].
Contexts ==
  {[context |-> NoContext, absent |-> AllFields]}
    \cup {[context |-> [NoContext EXCEPT !.maxSubshellDepth = d, !.threshold = SmallThreshold],
           absent |-> AllFields \ {"maxSubshellDepth", "threshold"}] : d \in 0..MaxDepthBound}
    \cup {[context |-> [NoContext EXCEPT !.allowed = a], absent |-> AllFields \ {"allowed"}] :
            a \in {{W_rm}, {W_ls}}}
    \cup {[context |-> NoContext, absent |-> AllFields \ {"trustedDomains"}]}
    \cup {[context |-> [NoContext EXCEPT !.customRules = r],
           absent |-> AllFields \ {"customRules"}] : r \in CustomRuleSets}
    \cup {[context |-> [NoContext EXCEPT !.blocked = DEFAULT_BLOCKED \cup {W_git}],
           absent |-> AllFields \ {"blocked"}]}

\* process.env, the changed paths git reports, the shell-context snapshot.
Systems ==
  {[env |-> <<>>, dirty |-> {}, snapshot |-> <<>>],
   [env |-> << <<W_V, W_rm>> >>, dirty |-> {X}, snapshot |-> <<>>],
   [env |-> <<>>, dirty |-> {},
    snapshot |-> <<[name |-> W_ls, kind |-> "alias", referencedTokens |-> <<W_rm>>]>>]}

\* The names a later configuration adds to blocked.
AddedNames == {W_ls, W_git}

(***************************************************************************)
(* checkDestructive as a state machine.  stack holds the calls in          *)
(* progress, the innermost last.  A call is at "depth" (the depth check),  *)
(* "pre" (the loop over the rules before parsing, at rule ri), "parse",    *)
(* "post" (the loop after parsing), "walk" (inside CoreAstRule.check, at   *)
(* token i), "sub" (waiting for recursiveCheck) or "ret" (returning        *)
(* result).                                                                *)
(*                                                                         *)
(* log, calls and lastHandled record what happened: the steps evaluated    *)
(* with the depth of their call, the number of recursive analyses started, *)
(* and the resolved name of the latest handleCommand.  run and prev serve  *)
(* the comparison of two configurations: after the first analysis the same *)
(* command is analysed again with one more blocked name.                   *)
(* first is the system (environment, git state, snapshot) of the first    *)
(* analysis; proc is the state of the command-line program around it.     *)
(***************************************************************************)
VARIABLES input, config, sys, stack, result, done, log, calls, lastHandled, run, prev,
          first, proc

vars == <<input, config, sys, stack, result, done, log, calls, lastHandled, run, prev,
          first, proc>>

\* proc outside a run of the command-line program.
NoProcess == [pc |-> "none"]

top == stack[Len(stack)]
SetTop(f) == [stack EXCEPT ![Len(stack)] = f]
Returning(f, r) == [f EXCEPT !.pc = "ret", !.result = r]
Logged(f, step) == Append(log, [depth |-> f.depth, step |-> step])

Init ==
  /\ \E c \in Commands :
       \E len \in Lengths(c), depth \in Depths(c) :
          input = [command |-> c, len |-> len, depth |-> depth]
  /\ \E ctx \in Contexts : config = toConfig(ctx.context, ctx.absent)
  /\ sys \in Systems
  /\ stack = <<Frame(input.command, input.len, input.depth)>>
  /\ result = Null
  /\ done = FALSE
  /\ log = <<>>
  /\ calls = 0
  /\ lastHandled = <<>>
  /\ run = 1
  /\ prev = Null
  /\ first = sys
  /\ proc = NoProcess

\* analyzer.ts: the depth check.
DepthCheck ==
  /\ stack # <<>>
  /\ top.pc = "depth"
  /\ stack' = SetTop(IF DepthExceeds(top.depth, config)
                     THEN Returning(top, DepthLimitExceeded)
                     ELSE [top EXCEPT !.pc = "pre", !.ri = 1])
  /\ log' = Logged(top, "depth")
  /\ UNCHANGED <<input, config, sys, result, done, calls, lastHandled, run, prev, first, proc>>

\* PreRuleStep with patterns that keep the position of their last match (the
\* global flag): in the second call RawThreatRule's tests start past the end.
PreRuleStepStaleRegex(f) ==
  LET rule == rules[f.ri]
      r == IF run = 2 /\ rule.name = "RawThreatRule" THEN Null
           ELSE annotateRule(rule.name, RuleCheck(rule.name, f, config))
      onward == IF f.ri = Len(rules) THEN [f EXCEPT !.pc = "parse"]
                ELSE [f EXCEPT !.ri = @ + 1]
  IN IF rule.phase = "pre" /\ r.blocked THEN Returning(f, r) ELSE onward

\* analyzer.ts: one iteration of the loop over the rules before parsing.
PreRuleStep(f) ==
  LET rule == rules[f.ri]
      r == annotateRule(rule.name, RuleCheck(rule.name, f, config))
      onward == IF f.ri = Len(rules) THEN [f EXCEPT !.pc = "parse"]
                ELSE [f EXCEPT !.ri = @ + 1]
  IN IF rule.phase = "pre" /\ r.blocked THEN Returning(f, r) ELSE onward

RunPreRule ==
  /\ stack # <<>>
  /\ top.pc = "pre"
  /\ stack' = SetTop(PreRuleStep(top))
  /\ log' = IF rules[top.ri].phase = "pre" THEN Logged(top, rules[top.ri].name) ELSE log
  /\ UNCHANGED <<input, config, sys, result, done, calls, lastHandled, run, prev, first, proc>>

\* analyzer.ts: parse inside try/catch.
Tokenize ==
  /\ stack # <<>>
  /\ top.pc = "parse"
  /\ stack' = SetTop(IF parse(top.command).throws THEN Returning(top, MalformedSyntax)
                     ELSE [top EXCEPT !.pc = "post", !.ri = 1,
                                      !.tokens = parse(top.command).tokens])
  /\ log' = Logged(top, "tokenize")
  /\ UNCHANGED <<input, config, sys, result, done, calls, lastHandled, run, prev, first, proc>>

\* The loop after parsing moves past rule ri, or ends: return {blocked: false}.
PostOnward(f) ==
  IF f.ri = Len(rules) THEN Returning(f, Null)
  ELSE [f EXCEPT !.pc = "post", !.ri = @ + 1]

\* analyzer.ts: one iteration of the loop over the rules after parsing, up to
\* the entry into CoreAstRule.check.
PostRuleStep(f) ==
  LET rule == rules[f.ri]
      r == annotateRule(rule.name, RuleCheck(rule.name, f, config))
  IN IF rule.phase # "post" THEN PostOnward(f)
     ELSE IF rule.name = "CoreAstRule"
     THEN [f EXCEPT !.pc = "walk", !.i = 1, !.scope = <<>>, !.nmc = TRUE]
     ELSE IF r.blocked THEN Returning(f, r)
     ELSE PostOnward(f)

RunPostRule ==
  /\ stack # <<>>
  /\ top.pc = "post"
  /\ stack' = SetTop(PostRuleStep(top))
  /\ log' = IF rules[top.ri].phase = "post" THEN Logged(top, rules[top.ri].name) ELSE log
  /\ UNCHANGED <<input, config, sys, result, done, calls, lastHandled, run, prev, first, proc>>

\* CoreAstRule.check: one iteration of the token loop, or its end.  The
\* outcome of the iteration; kind "end" when the loop is over.
WalkOutcome(f) ==
  IF f.i > Len(f.tokens)
  THEN [kind |-> "end", result |-> Null, i |-> f.i, scope |-> f.scope, nmc |-> f.nmc,
        cmd |-> <<>>, handled |-> <<>>]
  ELSE CoreAstStep(f, config, sys)

WalkStack(st) ==
  IF st.kind = "end" THEN SetTop(PostOnward(top))
  ELSE IF st.kind = "block"
  THEN SetTop(Returning(top, annotateRule("CoreAstRule", st.result)))
  ELSE IF st.kind = "call"
  THEN Append(SetTop([top EXCEPT !.pc = "sub"]),
              Frame(st.cmd[1], Len(st.cmd[1]), top.depth + 1))
  ELSE SetTop([top EXCEPT !.i = st.i, !.scope = st.scope, !.nmc = st.nmc])

WalkStep ==
  /\ stack # <<>>
  /\ top.pc = "walk"
  /\ \E st \in {WalkOutcome(top)} :
       /\ stack' = WalkStack(st)
       /\ calls' = IF st.kind = "call" THEN calls + 1 ELSE calls
       /\ lastHandled' = IF st.handled # <<>> THEN st.handled ELSE lastHandled
  /\ UNCHANGED <<input, config, sys, result, done, log, run, prev, first, proc>>

\* recursiveCheck returns into handleCommand: a blocking decision goes up,
\* anything else lets the walk go on with the next token.
AfterSubshell(caller, subshellResult) ==
  IF subshellResult.blocked
  THEN Returning(caller, annotateRule("CoreAstRule", subshellResult))
  ELSE [caller EXCEPT !.pc = "walk", !.i = @ + 1]

Return ==
  /\ Len(stack) > 1
  /\ top.pc = "ret"
  /\ stack' = Append(SubSeq(stack, 1, Len(stack) - 2),
                     AfterSubshell(stack[Len(stack) - 1], top.result))
  /\ UNCHANGED <<input, config, sys, result, done, log, calls, lastHandled, run, prev, first, proc>>

\* The outermost call returns to its caller.
Finish ==
  /\ Len(stack) = 1
  /\ top.pc = "ret"
  /\ result' = top.result
  /\ done' = TRUE
  /\ stack' = <<>>
  /\ UNCHANGED <<input, config, sys, log, calls, lastHandled, run, prev, first, proc>>

\* The same command is analysed again under the configuration that differs
\* only by one more blocked name.
Reconfigure ==
  /\ done
  /\ run = 1
  /\ \E n \in AddedNames \ config.blocked :
        config' = [config EXCEPT !.blocked = @ \cup {n}]
  /\ prev' = result
  /\ run' = 2
  /\ done' = FALSE
  /\ result' = Null
  /\ stack' = <<Frame(input.command, input.len, input.depth)>>
  /\ log' = <<>>
  /\ calls' = 0
  /\ lastHandled' = <<>>
  /\ UNCHANGED <<input, sys, first, proc>>

\* checkDestructive as a function: the decision the call f returns, computed
\* with the steps of the actions above.
RECURSIVE RunCall(_)
RunCall(f) ==
  IF f.pc = "ret" THEN f.result
  ELSE IF f.pc = "depth"
  THEN RunCall(IF DepthExceeds(f.depth, config) THEN Returning(f, DepthLimitExceeded)
               ELSE [f EXCEPT !.pc = "pre", !.ri = 1])
  ELSE IF f.pc = "pre" THEN Value({RunCall(g) : g \in {PreRuleStep(f)}})
  ELSE IF f.pc = "parse"
  THEN Value({IF p.throws THEN MalformedSyntax
              ELSE RunCall([f EXCEPT !.pc = "post", !.ri = 1, !.tokens = p.tokens]) :
                p \in {parse(f.command)}})
  ELSE IF f.pc = "post" THEN Value({RunCall(g) : g \in {PostRuleStep(f)}})
  ELSE Value({IF st.kind = "end" THEN RunCall(PostOnward(f))
              ELSE IF st.kind = "block" THEN annotateRule("CoreAstRule", st.result)
              ELSE IF st.kind = "call"
              THEN Value({RunCall(AfterSubshell(f, r)) :
                            r \in {RunCall(Frame(st.cmd[1], Len(st.cmd[1]), f.depth + 1))}})
              ELSE RunCall([f EXCEPT !.i = st.i, !.scope = st.scope, !.nmc = st.nmc]) :
                st \in {WalkOutcome(f)}})

checkDestructive(command) == RunCall(Frame(command, Len(command), 0))

\* The process environments and git working trees a second call may meet.
LaterSystems(s) ==
  {[s EXCEPT !.env = e, !.dirty = d] : e \in {<<>>, << <<W_V, W_rm>> >>}, d \in {{}, {X}}}

\* checkDestructive is called a second time with the same command, Config and
\* shell-context snapshot; the process environment and the git working tree
\* are the same as, or differ from, those of the first call.
CallAgain ==
  /\ done
  /\ run = 1
  /\ sys' \in LaterSystems(sys)
  /\ prev' = result
  /\ run' = 2
  /\ done' = FALSE
  /\ result' = Null
  /\ stack' = <<Frame(input.command, input.len, input.depth)>>
  /\ log' = <<>>
  /\ calls' = 0
  /\ lastHandled' = <<>>
  /\ UNCHANGED <<input, config, first, proc>>

Next ==
  \/ DepthCheck
  \/ RunPreRule
  \/ Tokenize
  \/ RunPostRule
  \/ WalkStep
  \/ Return
  \/ Finish
  \/ Reconfigure

Spec == Init /\ [][Next]_vars

\* The analysis is one sequential computation: it always takes its next step.
\* Termination is checked on the commands that recurse, next to some that do
\* not, under every depth limit.
InitRecursive ==
  /\ Init
  /\ input.command \in SubshellCommands \cup {W_ls, JoinSp(<<W_rm, X>>),
                                               JoinSp(<<W_ls, <<"$","{","x">>>>)}
  /\ config.customRules = <<>>
  /\ config.trustedDomains # <<>>
  /\ sys.env = <<>>

FairSpec == InitRecursive /\ [][Next]_vars /\ WF_vars(Next)

\* Two calls of checkDestructive, one after the other.
InitTwice ==
  /\ Init
  /\ input.command \in PlainCommands \cup RawCommands \cup SubshellCommands
  /\ input.depth = 0
  /\ input.len = Len(input.command)

NextTwice ==
  \/ DepthCheck
  \/ RunPreRule
  \/ Tokenize
  \/ RunPostRule
  \/ WalkStep
  \/ Return
  \/ Finish
  \/ CallAgain

TwiceSpec == InitTwice /\ [][NextTwice]_vars

(***************************************************************************)
(* utils/bypass.ts                                                         *)
(***************************************************************************)
W_SHELLSHIELD_SKIP == <<"S","H","E","L","L","S","H","I","E","L","D","_","S","K","I","P">>
W_true == <<"t","r","u","e">>
W_yes == <<"y","e","s">>
W_on == <<"o","n">>
W_enable == <<"e","n","a","b","l","e">>
W_enabled == <<"e","n","a","b","l","e","d">>

BYPASS_VALUES == {<<"1">>, W_true, W_yes, W_on, W_enable, W_enabled}

\* String.prototype.trim: blanks and line terminators go, at both ends.
IsJsSpace(c) == c \in {" ", "\t", "\r", "\n"}
JsTrim(s) ==
  LET keep == {k \in 1..Len(s) : ~IsJsSpace(s[k])}
  IN IF keep = {} THEN <<>>
     ELSE SubSeq(s, CHOOSE x \in keep : \A y \in keep : x <= y,
                    CHOOSE x \in keep : \A y \in keep : x >= y)

\* The bypass that only SHELLSHIELD_SKIP=1 takes.
isBypassEnabledOnlyOne(value) == value = << <<"1">> >>

\* value is a sequence of at most one string (empty for undefined).
isBypassEnabled(value) ==
  IF value = <<>> \/ value[1] = <<>> THEN FALSE
  ELSE JsTrim(ToLower(value[1])) \in BYPASS_VALUES

\* The loop of extractEnvVar from token i: a sequence of at most one string.
RECURSIVE ExtractEnvVarFrom(_, _, _)
ExtractEnvVarFrom(tokens, i, varName) ==
  IF i > Len(tokens) THEN <<>>
  ELSE IF isOperator(tokens[i]) THEN <<>>
  ELSE IF ~Includes(tokens[i].s, <<"=">>) THEN <<>>
  ELSE IF BeforeFirst(tokens[i].s, "=") = varName
  THEN <<Drop(tokens[i].s, IndexFrom(tokens[i].s, "=", 1))>>
  ELSE ExtractEnvVarFrom(tokens, i + 1, varName)

extractEnvVar(tokens, varName) == ExtractEnvVarFrom(tokens, 1, varName)

\* The command starts with an assignment of a bypass value to SHELLSHIELD_SKIP.
hasBypassPrefix(command) ==
  \E p \in {parse(command)} :
     ~p.throws /\ isBypassEnabled(extractEnvVar(p.tokens, W_SHELLSHIELD_SKIP))

(***************************************************************************)
(* cli.ts: main and its handlers for --paste, --check and the tool hook    *)
(* (stdin).  proc is the process:                                          *)
(*   skip, flags, checkArg, stdin, mode, tty  what it is started with:     *)
(*     process.env.SHELLSHIELD_SKIP, the flags among the arguments, the    *)
(*     argument after --check, the text on stdin with what JSON.parse      *)
(*     makes of it, getConfiguration().mode, process.stdin.isTTY;          *)
(*   pc      "main", the handler entered, "lines" (the loop of             *)
(*           handlePaste), "call" (inside checkAndAuditCommand, waiting    *)
(*           for checkDestructive), "back" (checkAndAuditCommand           *)
(*           returned ok), "exit";                                         *)
(*   checked, audit, exit   the commands handed to checkDestructive, the   *)
(*           records handed to logAudit, the exit code.                    *)
(***************************************************************************)
NoExit == 0 - 1

Exit(p, code) == [p EXCEPT !.pc = "exit", !.exit = code]

\* input.split(/\r?\n/)
RECURSIVE SplitLines(_)
SplitLines(text) ==
  LET nl == IndexFrom(text, "\n", 1)
      cut == IF nl > 1 /\ text[nl - 1] = "\r" THEN nl - 2 ELSE nl - 1
  IN IF nl = 0 THEN <<text>>
     ELSE <<SubSeq(text, 1, cut)>> \o SplitLines(Drop(text, nl))

\* checkAndAuditCommand calls checkDestructive(command).
Call(command, source) ==
  /\ proc' = [proc EXCEPT !.pc = "call", !.command = command, !.source = source,
                          !.checked = Append(@, command)]
  /\ input' = [command |-> command, len |-> Len(command), depth |-> 0]
  /\ stack' = <<Frame(command, Len(command), 0)>>
  /\ result' = Null
  /\ done' = FALSE
  /\ log' = <<>>
  /\ calls' = 0
  /\ lastHandled' = <<>>
  /\ UNCHANGED <<config, sys, run, prev, first>>

\* A step of the process outside checkDestructive.
Step(p) ==
  /\ proc' = p
  /\ UNCHANGED <<input, config, sys, stack, result, done, log, calls, lastHandled,
                 run, prev, first>>

\* main up to the handler it enters.
(***************************************************************************)
(* config.ts.  A value that may be absent is a sequence of at most one     *)
(* element.  A configuration file is absent (missing or not JSON) or holds *)
(* a record of such values; a number of the file is a JSON number or a     *)
(* JSON string.                                                            *)
(***************************************************************************)
W_enforce == <<"e","n","f","o","r","c","e">>
W_permissive == <<"p","e","r","m","i","s","s","i","v","e">>
W_interactive == <<"i","n","t","e","r","a","c","t","i","v","e">>
VALID_MODES == {W_enforce, W_permissive, W_interactive}
ModeName(w) ==
  IF w = W_permissive THEN "permissive"
  ELSE IF w = W_interactive THEN "interactive" ELSE "enforce"

DigitValue(c) == CHOOSE n \in 0..9 : <<"0","1","2","3","4","5","6","7","8","9">>[n + 1] = c
RECURSIVE DigitsValue(_, _)
DigitsValue(s, acc) ==
  IF s = <<>> \/ s[1] \notin Digits THEN acc
  ELSE DigitsValue(Tail(s), acc * 10 + DigitValue(s[1]))

\* Number.parseInt(s, 10): leading blanks are skipped, a sign is read, then
\* the digits up to the first other character; <<>> stands for NaN.
parseInt(s) ==
  LET k == FirstIdx(s, LAMBDA c : ~IsJsSpace(c))
      t == IF k = 0 THEN <<>> ELSE Drop(s, k - 1)
      signed == t # <<>> /\ t[1] \in {"+", "-"}
      body == IF signed THEN Tail(t) ELSE t
  IN IF body = <<>> \/ body[1] \notin Digits THEN <<>>
     ELSE IF signed /\ t[1] = "-" THEN <<0 - DigitsValue(body, 0)>>
     ELSE <<DigitsValue(body, 0)>>

parseModeValue(raw) ==
  IF raw = <<>> \/ raw[1] = <<>> THEN <<>>
  ELSE IF ToLower(JsTrim(raw[1])) \in VALID_MODES THEN <<ToLower(JsTrim(raw[1]))>>
  ELSE <<>>

JsonNumber(n) == [t |-> "number", v |-> n]
JsonString(w) == [t |-> "string", v |-> w]

\* The preprocess step of ConfigSchema for threshold and maxSubshellDepth.
Preprocess(val) == IF val.t = "string" THEN parseInt(val.v) ELSE <<val.v>>

\* readConfigFile: null for a file that fails ConfigSchema, else its data.
readConfigFile(file) ==
  LET number(field) == IF field = <<>> THEN <<>> ELSE Preprocess(field[1])
      numberOk(field, parsed, least) == field = <<>> \/ (parsed # <<>> /\ parsed[1] >= least)
      validate(raw, threshold, maxSubshellDepth) ==
        IF /\ numberOk(raw.threshold, threshold, 1)
           /\ numberOk(raw.maxSubshellDepth, maxSubshellDepth, 0)
           /\ (raw.mode = <<>> \/ raw.mode[1] \in VALID_MODES)
        THEN <<[raw EXCEPT !.threshold = threshold, !.maxSubshellDepth = maxSubshellDepth]>>
        ELSE <<>>
  IN IF file = <<>> THEN <<>>
     ELSE Value({validate(file[1], threshold, maxSubshellDepth) :
                   threshold \in {number(file[1].threshold)},
                   maxSubshellDepth \in {number(file[1].maxSubshellDepth)}})

\* loadConfigFile: each field from the local file, else from the home file.
loadConfigFile(local, home) ==
  LET merge(localConfig, homeConfig) ==
        LET field(name) ==
              IF localConfig # <<>> /\ localConfig[1][name] # <<>> THEN localConfig[1][name]
              ELSE IF homeConfig # <<>> THEN homeConfig[1][name] ELSE <<>>
            lowered(names) == IF names = <<>> THEN <<>> ELSE <<{ToLower(n) : n \in names[1]}>>
        IN [blocked |-> lowered(field("blocked")),
            allowed |-> lowered(field("allowed")),
            trustedDomains |-> field("trustedDomains"),
            threshold |-> field("threshold"),
            maxSubshellDepth |-> field("maxSubshellDepth"),
            mode |-> field("mode"),
            customRules |-> field("customRules")]
  IN Value({merge(localConfig, homeConfig) :
              localConfig \in {readConfigFile(local)}, homeConfig \in {readConfigFile(home)}})

RECURSIVE SplitCommas(_)
SplitCommas(text) ==
  LET comma == IndexFrom(text, ",", 1)
  IN IF comma = 0 THEN <<text>>
     ELSE <<SubSeq(text, 1, comma - 1)>> \o SplitCommas(Drop(text, comma))

\* The names an OPENCODE_*_COMMANDS variable adds.
CommandsOf(variable) ==
  IF variable = <<>> \/ variable[1] = <<>> THEN {}
  ELSE LET cmds == SplitCommas(variable[1])
       IN {ToLower(JsTrim(cmds[k])) : k \in 1..Len(cmds)}

getConfiguration(local, home, env) ==
  LET truthy(n) == n # <<>> /\ n[1] # 0
      number(variable) ==
        IF variable = <<>> \/ variable[1] = <<>> THEN <<>> ELSE parseInt(variable[1])
      configure(fileConfig, envThreshold, envMaxDepth, envMode) ==
        [blocked |-> (IF fileConfig.blocked # <<>> THEN fileConfig.blocked[1]
                      ELSE DEFAULT_BLOCKED) \cup CommandsOf(env.OPENCODE_BLOCK_COMMANDS),
         allowed |-> (IF fileConfig.allowed # <<>> THEN fileConfig.allowed[1] ELSE {})
                       \cup CommandsOf(env.OPENCODE_ALLOW_COMMANDS),
         trustedDomains |-> IF fileConfig.trustedDomains # <<>>
                            THEN fileConfig.trustedDomains[1] ELSE DEFAULT_TRUSTED_DOMAINS,
         threshold |-> IF truthy(fileConfig.threshold) THEN fileConfig.threshold[1]
                       ELSE IF truthy(envThreshold) THEN envThreshold[1]
                       ELSE DEFAULT_THRESHOLD,
         maxSubshellDepth |-> IF fileConfig.maxSubshellDepth # <<>>
                              THEN fileConfig.maxSubshellDepth[1]
                              ELSE IF truthy(envMaxDepth) THEN envMaxDepth[1]
                              ELSE DEFAULT_MAX_SUBSHELL_DEPTH,
         mode |-> IF envMode # <<>> THEN ModeName(envMode[1])
                  ELSE IF fileConfig.mode # <<>> THEN ModeName(fileConfig.mode[1])
                  ELSE "enforce",
         customRules |-> IF fileConfig.customRules # <<>>
                         THEN fileConfig.customRules[1] ELSE <<>>]
  IN Value({configure(fileConfig, envThreshold, envMaxDepth, envMode) :
              fileConfig \in {loadConfigFile(local, home)},
              envThreshold \in {number(env.SHELLSHIELD_THRESHOLD)},
              envMaxDepth \in {number(env.SHELLSHIELD_MAX_SUBSHELL_DEPTH)},
              envMode \in {parseModeValue(env.SHELLSHIELD_MODE)}})

\* main: the configuration is read first, then SHELLSHIELD_SKIP of the
\* process environment is looked at, then the entry shape is chosen.
Main ==
  /\ proc.pc = "main"
  /\ \E c \in {getConfiguration(proc.setup.local, proc.setup.home, proc.setup.env)} :
       /\ config' = [name \in DOMAIN config |-> c[name]]
       /\ \E p \in {[proc EXCEPT !.mode = c.mode]} :
            proc' = IF isBypassEnabled(p.skip) THEN [Exit(p, 0) EXCEPT !.bypassed = TRUE]
                    ELSE IF "--paste" \in p.flags THEN [p EXCEPT !.pc = "paste"]
                    ELSE IF "--check" \in p.flags THEN [p EXCEPT !.pc = "check"]
                    ELSE [p EXCEPT !.pc = "stdin"]
  /\ UNCHANGED <<input, sys, stack, result, done, log, calls, lastHandled, run, prev, first>>

\* handleCheck up to checkAndAuditCommand.  checkArg is a sequence of at most
\* one string: args[cmdIdx + 1].
HandleCheck ==
  /\ proc.pc = "check"
  /\ IF proc.checkArg = <<>> \/ proc.checkArg[1] = <<>> THEN Step(Exit(proc, 0))
     ELSE IF hasBypassPrefix(proc.checkArg[1]) THEN Step(Exit(proc, 0))
     ELSE Call(proc.checkArg[1], "check")

\* handlePaste up to its loop.
HandlePaste ==
  /\ proc.pc = "paste"
  /\ Step(IF proc.stdin.text = <<>> THEN Exit(proc, 0)
          ELSE [proc EXCEPT !.pc = "lines", !.lines = SplitLines(proc.stdin.text),
                            !.li = 1])

\* handlePaste: one iteration of the loop over the lines, or its end.
PasteLine ==
  /\ proc.pc = "lines"
  /\ IF proc.li > Len(proc.lines) THEN Step(Exit(proc, 0))
     ELSE \E command \in {JsTrim(proc.lines[proc.li])} :
            IF command = <<>> \/ hasBypassPrefix(command)
            THEN Step([proc EXCEPT !.li = @ + 1])
            ELSE Call(command, "paste")

\* The command handleStdin finds on stdin.  data is a sequence of at most one
\* value: what JSON.parse(input) returns, each field a sequence of at most one
\* string.
StdinCommand(stdin) ==
  IF stdin.data = <<>> THEN JsTrim(stdin.text)
  ELSE IF stdin.data[1].tool_input_command # <<>> THEN stdin.data[1].tool_input_command[1]
  ELSE IF stdin.data[1].command # <<>> THEN stdin.data[1].command[1]
  ELSE <<>>

\* handleStdin up to checkAndAuditCommand.
HandleStdin ==
  /\ proc.pc = "stdin"
  /\ IF proc.stdin.text = <<>> \/ JsTrim(proc.stdin.text) = <<>> THEN Step(Exit(proc, 0))
     ELSE \E command \in {StdinCommand(proc.stdin)} :
            IF command = <<>> \/ JsTrim(command) = <<>> \/ hasBypassPrefix(command)
            THEN Step(Exit(proc, 0))
            ELSE Call(command, "stdin")

\* promptConfirmation: answer is what the operator types.
promptConfirmation(tty, answer) ==
  IF ~tty THEN FALSE ELSE ToLower(answer) \in {<<"y">>, W_yes}

\* The mode mapping in which permissive mode blocks as enforce mode does.
ModeDecisionWithoutPermissive(blocked, mode, confirmed) ==
  IF ~blocked THEN "allowed"
  ELSE IF mode = "interactive" /\ confirmed THEN "approved"
  ELSE "blocked"

\* checkAndAuditCommand: the decision it logs.
ModeDecision(blocked, mode, confirmed) ==
  IF ~blocked THEN "allowed"
  ELSE IF mode = "permissive" THEN "warn"
  ELSE IF mode = "interactive" /\ confirmed THEN "approved"
  ELSE "blocked"

Answers == {<<"y">>, <<"Y","E","S">>, <<"n">>, <<>>}

\* checkAndAuditCommand once checkDestructive has returned: the prompt in
\* interactive mode, the audit record, the value returned.
CheckAndAudit ==
  /\ proc.pc = "call"
  /\ done
  /\ \E answer \in IF result.blocked /\ proc.mode = "interactive" /\ proc.tty
                   THEN Answers ELSE {<<>>} :
       \E decision \in {ModeDecision(result.blocked, proc.mode,
                                     promptConfirmation(proc.tty, answer))} :
          Step([proc EXCEPT !.pc = "back",
                            !.ok = decision # "blocked",
                            !.answer = answer,
                            !.audit = Append(@, [command |-> proc.command,
                                                 blocked |-> decision = "blocked",
                                                 decision |-> decision,
                                                 source |-> proc.source])])

\* handlePaste after a line that is not ok, going on with the next line.
AfterLineKeepsGoing(p) == [p EXCEPT !.pc = "lines", !.li = @ + 1]

\* handlePaste after checkAndAuditCommand: if (!ok) process.exit(2).
AfterLine(p) ==
  IF ~p.ok THEN Exit(p, 2) ELSE [p EXCEPT !.pc = "lines", !.li = @ + 1]

\* handleCheck and handleStdin after checkAndAuditCommand.
AfterCommand(p) == Exit(p, IF p.ok THEN 0 ELSE 2)

Back ==
  /\ proc.pc = "back"
  /\ Step(IF proc.source = "paste" THEN AfterLine(proc) ELSE AfterCommand(proc))

\* What the process is started with.
NL == <<"\n">>
CRLF == <<"\r", "\n">>
\* Text that is not JSON, and the text of a JSON object (only its data are
\* modelled, its text is some text that is not blank).
Raw(text) == [text |-> text, data |-> <<>>]
Json(toolInputCommand, command) ==
  [text |-> <<"{", "}">>,
   data |-> <<[tool_input_command |-> toolInputCommand, command |-> command]>>]
NoStdin == Raw(<<>>)

SkipPrefixed(command) == JoinSp(<<Assignment(W_SHELLSHIELD_SKIP, <<"1">>), command>>)

CliCommands ==
  {W_ls, JoinSp(<<W_rm, X>>), SkipPrefixed(JoinSp(<<W_rm, X>>)), BashC(W_ls),
   BashC(SQ(JoinSp(<<W_rm, X>>)))}

PasteTexts ==
  {<<>>,
   W_ls \o NL \o JoinSp(<<W_rm, X>>) \o NL \o JoinSp(<<W_ls, X>>),
   W_ls \o CRLF \o CRLF \o <<" ", " ">> \o CRLF \o BashC(W_ls) \o NL,
   <<" ">> \o JoinSp(<<W_rm, X>>) \o <<" ">> \o CRLF \o JoinSp(<<W_rm, Y>>),
   SkipPrefixed(JoinSp(<<W_rm, X>>)) \o NL \o W_ls,
   JoinSp(<<W_ls, X>>) \o NL \o W_ls \o NL \o JoinSp(<<W_rm, Y>>)}

StdinInputs ==
  {NoStdin, Raw(<<" ", "\n">>), Json(<<>>, <<>>), Json(<<JoinSp(<<W_rm, X>>)>>, <<W_ls>>),
   Json(<<>>, <<JoinSp(<<W_rm, X>>)>>), Json(<<W_ls>>, <<>>)}
    \cup {Raw(c \o NL) : c \in CliCommands}

SkipValues ==
  {<<>>, << <<>> >>, << <<"0">> >>, << <<"2">> >>, << <<"1">> >>,
   << <<" ", "T","R","U","E", " ">> >>, << W_yes >>, << W_on >>, << W_enable >>,
   << W_enabled >>, << <<"f","a","l","s","e">> >>, << <<"n","o">> >>,
   << <<"o","f","f">> >>, << <<"1","1">> >>}

\* [flags, checkArg, stdin]
Invocations ==
  {[flags |-> {"--check"}, checkArg |-> a, stdin |-> NoStdin] :
     a \in {<<>>, << <<>> >>} \cup {<<c>> : c \in CliCommands}}
    \cup {[flags |-> f, checkArg |-> <<W_ls>>, stdin |-> Raw(t)] :
            f \in {{"--paste"}, {"--paste", "--check"}}, t \in PasteTexts}
    \cup {[flags |-> {}, checkArg |-> <<>>, stdin |-> i] : i \in StdinInputs}

\* A configuration file without fields, a process environment without the
\* variables of getConfiguration.
EmptyFile ==
  [blocked |-> <<>>, allowed |-> <<>>, trustedDomains |-> <<>>, threshold |-> <<>>,
   maxSubshellDepth |-> <<>>, mode |-> <<>>, customRules |-> <<>>]
EmptyEnv ==
  [SHELLSHIELD_THRESHOLD |-> <<>>, SHELLSHIELD_MAX_SUBSHELL_DEPTH |-> <<>>,
   SHELLSHIELD_MODE |-> <<>>, OPENCODE_BLOCK_COMMANDS |-> <<>>,
   OPENCODE_ALLOW_COMMANDS |-> <<>>]
DefaultSetup == [local |-> <<>>, home |-> <<>>, env |-> EmptyEnv]

\* [local, home, env]: the files and the environment getConfiguration reads.
Setups ==
  {DefaultSetup,
   [DefaultSetup EXCEPT !.env.SHELLSHIELD_MODE = <<<<" ","P","e","r","m","i","s","s","i","v","e">>>>],
   [DefaultSetup EXCEPT !.home = <<[EmptyFile EXCEPT !.mode = <<W_interactive>>]>>,
                        !.env.SHELLSHIELD_MODE = <<<<"b","o","g","u","s">>>>,
                        !.env.SHELLSHIELD_THRESHOLD = <<<<"0">>>>,
                        !.env.SHELLSHIELD_MAX_SUBSHELL_DEPTH = <<<<"0">>>>],
   [DefaultSetup EXCEPT !.local = <<[EmptyFile EXCEPT !.threshold = <<JsonNumber(2)>>,
                                                      !.maxSubshellDepth = <<JsonNumber(0)>>,
                                                      !.mode = <<W_permissive>>]>>,
                        !.env.SHELLSHIELD_THRESHOLD = <<<<"3">>>>,
                        !.env.SHELLSHIELD_MAX_SUBSHELL_DEPTH = <<<<"1">>>>,
                        !.env.SHELLSHIELD_MODE = <<W_interactive>>],
   [DefaultSetup EXCEPT !.local = <<[EmptyFile EXCEPT !.threshold = <<JsonNumber(0)>>,
                                                      !.mode = <<W_permissive>>]>>,
                        !.home = <<[EmptyFile EXCEPT !.threshold = <<JsonString(<<"1","2">>)>>,
                                                     !.blocked = <<{<<"L","S">>}>>]>>,
                        !.env.SHELLSHIELD_THRESHOLD = <<<<"a","b","c">>>>,
                        !.env.OPENCODE_ALLOW_COMMANDS = <<<<"x",","," ","R","m"," ">>>>],
   [DefaultSetup EXCEPT !.env.SHELLSHIELD_THRESHOLD = <<<<"3","x">>>>,
                        !.env.SHELLSHIELD_MAX_SUBSHELL_DEPTH = <<<<"-","1">>>>,
                        !.env.OPENCODE_BLOCK_COMMANDS = <<<<"l","s">>>>]}

MainInit ==
  /\ \E skip \in SkipValues, inv \in Invocations, setup \in Setups, tty \in BOOLEAN :
        /\ skip # <<>> => (setup = DefaultSetup /\ ~tty)
        /\ proc = [pc |-> "main", skip |-> skip, flags |-> inv.flags, setup |-> setup,
                   checkArg |-> inv.checkArg, stdin |-> inv.stdin, mode |-> "enforce",
                   tty |-> tty, bypassed |-> FALSE, lines |-> <<>>, li |-> 0,
                   command |-> <<>>, source |-> "", ok |-> TRUE, answer |-> <<>>,
                   checked |-> <<>>, audit |-> <<>>, exit |-> NoExit]
  /\ config = toConfig(NoContext, AllFields)
  /\ sys = [env |-> <<>>, dirty |-> {}, snapshot |-> <<>>]
  /\ input = [command |-> <<>>, len |-> 0, depth |-> 0]
  /\ stack = <<>>
  /\ result = Null
  /\ done = FALSE
  /\ log = <<>>
  /\ calls = 0
  /\ lastHandled = <<>>
  /\ run = 1
  /\ prev = Null
  /\ first = sys

MainNext ==
  \/ Main
  \/ HandleCheck
  \/ HandlePaste
  \/ PasteLine
  \/ HandleStdin
  \/ CheckAndAudit
  \/ Back
  \/ DepthCheck
  \/ RunPreRule
  \/ Tokenize
  \/ RunPostRule
  \/ WalkStep
  \/ Return
  \/ Finish

MainSpec == MainInit /\ [][MainNext]_vars

(***************************************************************************)
(* Properties                                                              *)
(***************************************************************************)
Analysed(command) == done /\ input.command = command

\* The steps evaluated by the outermost call, in order.
OuterSteps ==
  LET own == SelectSeq(log, LAMBDA e : e.depth = input.depth)
  IN [k \in 1..Len(own) |-> own[k].step]

\* C1: checkDestructive evaluates depth check, Homograph, TerminalInjection,
\* RawThreat, tokenization, Custom, CoreAst in this order and returns the
\* decision of the first step that blocks, annotated with its rule: a command
\* that passes the depth check and on which the Homograph rule blocks is
\* answered with the Homograph rule's decision.
C1_HomographDecidesFirst ==
  (done /\ input.depth <= config.maxSubshellDepth
        /\ HomographRule(input.command, input.len).blocked)
    => /\ result = annotateRule("HomographRule", HomographRule(input.command, input.len))
       /\ OuterSteps = <<"depth", "HomographRule">>

\* C2: fail-closed.  A command longer than MAX_INPUT_LENGTH, a depth argument
\* above maxSubshellDepth, and a command whose tokenization fails are each
\* answered with a blocking decision, whatever the configuration; a
\* tokenization failure that is reached is answered MALFORMED COMMAND SYNTAX.
C2_FailClosed ==
  done =>
    /\ (\/ input.len > MAX_INPUT_LENGTH
        \/ input.depth > config.maxSubshellDepth
        \/ parse(input.command).throws) => result.blocked
    /\ (Len(OuterSteps) > 0 /\ OuterSteps[Len(OuterSteps)] = "tokenize"
          /\ parse(input.command).throws)
         => result.reason = "MALFORMED COMMAND SYNTAX"

C2_Witness ==
  /\ done
  /\ parse(input.command).throws
  /\ input.len <= MAX_INPUT_LENGTH
  /\ config.allowed # {}
  /\ result.reason = "MALFORMED COMMAND SYNTAX"

BlockedCommandReasons ==
  {"CRITICAL PATH PROTECTED", "VOLUME THRESHOLD EXCEEDED", "UNCOMMITTED CHANGES DETECTED",
   "Destructive command '<cmd>' detected"}

\* C3: allowlist dominance.  A decision of the blocked-command check (CRITICAL
\* PATH PROTECTED, VOLUME THRESHOLD EXCEEDED, UNCOMMITTED CHANGES DETECTED,
\* Destructive command 'x' detected) is never produced for a command whose
\* resolved name is in allowed, also when that name is in blocked.
C3_AllowlistDominance ==
  (done /\ result.blocked /\ result.reason \in BlockedCommandReasons)
    => /\ lastHandled # <<>>
       /\ lastHandled[1] \notin config.allowed

C3_Witness ==
  /\ done
  /\ lastHandled # <<>>
  /\ lastHandled[1] \in config.allowed \cap config.blocked
  /\ ~result.blocked
  /\ input.command = JoinSp(<<W_sudo, <<"/","b","i","n","/">> \o W_rm, X>>)

\* C4: monotone blocklist.  When a command is blocked under a configuration,
\* it is blocked under the configuration that differs only by one more name
\* in blocked.
C4_MonotoneBlocklist ==
  (done /\ run = 2 /\ prev.blocked) => result.blocked

\* h equals, or is a subdomain of, an entry of trustedDomains.
HostTrusted(h, trustedDomains) ==
  \E k \in 1..Len(trustedDomains) :
     \/ ToLower(h) = trustedDomains[k]
     \/ EndsWith(ToLower(h), <<".">> \o trustedDomains[k])

OtherwiseDefault ==
  /\ run = 1
  /\ config = [toConfig(NoContext, AllFields) EXCEPT !.trustedDomains = config.trustedDomains]
  /\ input.depth = 0
  /\ input.len = Len(input.command)

\* C5: trusted-domain invariant.  With an otherwise default configuration,
\* curl -sSL https://h/p | bash is allowed exactly when h equals or is a
\* subdomain of an entry of trustedDomains: no rule blocks a trusted host, and
\* an untrusted host is blocked.
C5_TrustedDomain ==
  \A h \in Hosts, p \in UrlPaths :
     (Analysed(CurlPipeBash(h, p)) /\ OtherwiseDefault)
       => (result.blocked <=> ~HostTrusted(h, config.trustedDomains))

C6Targets ==
  config.blocked \ (config.allowed \cup {W_dd, W_systemctl, W_sudo, W_xargs, W_command, W_env})

\* C6 as stated: every blocked name that is not allowed (dd, systemctl and
\* the prefix words aside) is blocked when reached through prefix words,
\* leading assignments, a leading backslash, a directory prefix, upper case
\* or a variable assigned earlier on the line.
C6_BlockedHoweverReached ==
  done => \A b \in C6Targets, a \in ArgLists :
             input.command \in ReachCommands(b, a) => result.blocked

\* C6, amended: the same, except for git with rm as its first argument, which
\* the walk skips.
C6_BlockedUnlessGitRm ==
  done => \A b \in C6Targets, a \in ArgLists :
             (input.command \in ReachCommands(b, a) /\ ~(b = W_git /\ ToLower(a[1]) = W_rm))
               => result.blocked

C6_Witness ==
  /\ Analysed(JoinSp(<<W_command, W_env, Assignment(W_V, W_rm) \o Semi,
                       <<"$","{","V","}">>, X>>))
  /\ W_rm \in C6Targets
  /\ sys.env = <<>>
  /\ result.reason = "Destructive command '<cmd>' detected"
  /\ result.rule = "CoreAstRule"

\* What C7 says of every call: a recursive analysis runs one level deeper
\* than its caller, and a call deeper than maxSubshellDepth evaluates nothing
\* but the depth check, calls nothing, and returns SUBSHELL DEPTH LIMIT
\* EXCEEDED.
DepthDiscipline ==
  /\ \A k \in 2..Len(stack) : stack[k].depth = stack[k - 1].depth + 1
  /\ \A k \in 1..Len(stack) :
        stack[k].depth > config.maxSubshellDepth
          => /\ k = Len(stack)
             /\ stack[k].pc \in {"depth", "ret"}
             /\ stack[k].pc = "ret"
                  => stack[k].result.reason = "SUBSHELL DEPTH LIMIT EXCEEDED"
  /\ \A k \in 1..Len(log) :
        log[k].depth > config.maxSubshellDepth => log[k].step = "depth"

\* C7: every analysis terminates; each recursive analysis runs with depth + 1,
\* and a call whose depth exceeds maxSubshellDepth returns SUBSHELL DEPTH LIMIT
\* EXCEEDED at once, running no rule and recursing no further.
C7_Terminates == []DepthDiscipline /\ <>[]done

C7_Witness ==
  /\ done
  /\ calls > 0
  /\ input.depth <= config.maxSubshellDepth
  /\ \E k \in 1..Len(log) : log[k].depth > config.maxSubshellDepth
  /\ result.reason = "SUBSHELL DEPTH LIMIT EXCEEDED"

\* C8 as stated: one top-level command triggers at most maxSubshellDepth + 1
\* recursive analyses, counted over all segments and nesting levels.
C8_AtMostDepthPlusOneAnalyses == calls <= config.maxSubshellDepth + 1

\* C8, amended: the bound is on nesting, not on the count.  No recursive
\* analysis runs deeper than maxSubshellDepth + 1, and at most
\* maxSubshellDepth + 1 recursive analyses are in progress at once.
C8_NestingBound ==
  /\ \A k \in 2..Len(stack) : stack[k].depth <= config.maxSubshellDepth + 1
  /\ Len(stack) - 1 <= config.maxSubshellDepth + 1

C8_Witness ==
  /\ done
  /\ calls > config.maxSubshellDepth + 1
  /\ ~result.blocked

AllRawPatterns ==
  UNION {RawThreatPatterns[k].pattern : k \in 1..Len(RawThreatPatterns)}

\* C9 as stated: a command longer than MAX_INPUT_LENGTH matches no pattern
\* under safeRegexTest and is blocked with reason COMMAND TOO LONG.
C9_TooLong ==
  (done /\ input.depth = 0 /\ input.len > MAX_INPUT_LENGTH)
    => /\ \A p \in AllRawPatterns : ~safeRegexTest(p, input.command, input.len)
       /\ result.blocked
       /\ result.reason = "COMMAND TOO LONG"

\* C9, amended: such a command matches no pattern under safeRegexTest and is
\* blocked; the reason is COMMAND TOO LONG unless the terminal-injection
\* rule, which runs first, finds an escape sequence or a hidden character.
C9_TooLongOrInjection ==
  (done /\ input.depth = 0 /\ input.len > MAX_INPUT_LENGTH)
    => /\ \A p \in AllRawPatterns : ~safeRegexTest(p, input.command, input.len)
       /\ result.blocked
       /\ result.reason = IF checkTerminalInjection(input.command) # ""
                          THEN checkTerminalInjection(input.command)
                          ELSE "COMMAND TOO LONG"

C9_Witness ==
  /\ done
  /\ input.depth = 0
  /\ input.len > MAX_INPUT_LENGTH
  /\ result.reason = "TERMINAL INJECTION DETECTED"
  /\ result.rule = "TerminalInjectionRule"

SecondCall == done /\ run = 2

\* C11: determinism.  Two calls of checkDestructive with the same command,
\* Config and shell-context snapshot return the same decision, whatever the
\* values of the process environment variables and the git working-tree state
\* at each call.
C11_FunctionOfCommandConfigSnapshot ==
  SecondCall => result = prev

\* C11, amended: two calls with the same command, Config, snapshot, process
\* environment and git working-tree state return the same decision.
C11_FunctionOfItsInputs ==
  (SecondCall /\ sys = first) => result = prev

C11_Witness ==
  /\ SecondCall
  /\ sys = first
  /\ sys.env # <<>>
  /\ input.command = JoinSp(<<<<"$","V">>, X>>)
  /\ result.blocked
  /\ result = prev


\* SHELLSHIELD_SKIP, lower-cased and trimmed; <<>> when it is unset.
SkipWord == IF proc.skip = <<>> THEN <<>> ELSE JsTrim(ToLower(proc.skip[1]))

BypassWords ==
  {<<"1">>, <<"t","r","u","e">>, <<"y","e","s">>, <<"o","n">>,
   <<"e","n","a","b","l","e">>, <<"e","n","a","b","l","e","d">>}

\* C12: bypass totality.  When SHELLSHIELD_SKIP, lower-cased and trimmed, is
\* one of 1, true, yes, on, enable, enabled, main exits 0 for every argument
\* list and stdin content, checkDestructive is not invoked and no audit record
\* is written; for every other value (unset, empty, 0, false, no, off, 2, ...)
\* the bypass is not taken: main goes on to the handler.
C12_BypassTotality ==
  /\ SkipWord \in BypassWords =>
       /\ proc.pc \in {"main", "exit"}
       /\ proc.pc = "exit" => (proc.exit = 0 /\ proc.bypassed)
       /\ proc.checked = <<>>
       /\ proc.audit = <<>>
       /\ stack = <<>>
  /\ SkipWord \notin BypassWords =>
       /\ ~proc.bypassed
       /\ (proc.pc = "exit" /\ proc.flags = {"--check"} /\ proc.setup = DefaultSetup
             /\ proc.checkArg = <<JoinSp(<<W_rm, X>>)>>)
            => (proc.exit = 2 /\ proc.checked = <<JoinSp(<<W_rm, X>>)>>)

C12_Witness ==
  /\ proc.pc = "exit"
  /\ proc.bypassed
  /\ proc.skip = << <<" ", "T","R","U","E", " ">> >>
  /\ proc.flags = {"--check"}
  /\ proc.checkArg = <<JoinSp(<<W_rm, X>>)>>
  /\ proc.exit = 0


\* The process has exited from handleCheck or handleStdin, and the command it
\* was given: the argument after --check, or the one found on stdin.
ExitedFromCheckOrStdin ==
  proc.pc = "exit" /\ ~proc.bypassed /\ "--paste" \notin proc.flags
GivenCommand ==
  IF "--check" \in proc.flags
  THEN (IF proc.checkArg = <<>> THEN <<>> ELSE proc.checkArg[1])
  ELSE StdinCommand(proc.stdin)

Confirmed == proc.tty /\ ToLower(proc.answer) \in {<<"y">>, <<"y","e","s">>}
BlocksInMode ==
  proc.mode = "enforce" \/ (proc.mode = "interactive" /\ ~Confirmed)

\* C13: mode mapping.  For the --check and stdin entry shapes the process
\* exits 2 if and only if checkDestructive blocks the command and the mode is
\* enforce, or interactive without the operator's y or yes (no prompt without
\* a TTY); in permissive mode and for a command that is not blocked it exits 0.
C13_ExitTwoIffBlocked ==
  (ExitedFromCheckOrStdin /\ JsTrim(GivenCommand) # <<>>) =>
     /\ proc.exit \in {0, 2}
     /\ proc.exit = 2 <=> (checkDestructive(GivenCommand).blocked /\ BlocksInMode)

\* C13, amended: the same for a command without the bypass prefix; a command
\* with the bypass prefix exits 0 and is neither analysed nor audited.
C13_ExitTwoIffBlockedUnlessPrefixed ==
  (ExitedFromCheckOrStdin /\ JsTrim(GivenCommand) # <<>>) =>
     IF hasBypassPrefix(GivenCommand)
     THEN proc.exit = 0 /\ proc.checked = <<>> /\ proc.audit = <<>>
     ELSE /\ proc.checked = <<GivenCommand>>
          /\ result = checkDestructive(GivenCommand)
          /\ proc.exit \in {0, 2}
          /\ proc.exit = 2 <=> (result.blocked /\ BlocksInMode)
          /\ Len(proc.audit) = 1
          /\ proc.audit[1].decision =
               (IF ~result.blocked THEN "allowed"
                ELSE IF proc.mode = "permissive" THEN "warn"
                ELSE IF proc.exit = 0 THEN "approved" ELSE "blocked")

C13_Witness ==
  /\ ExitedFromCheckOrStdin
  /\ proc.flags = {}
  /\ proc.mode = "interactive"
  /\ proc.tty
  /\ proc.answer = <<"Y","E","S">>
  /\ result.blocked
  /\ proc.exit = 0


InPaste == proc.pc # "none" /\ ~proc.bypassed /\ "--paste" \in proc.flags
ExitedFromPaste == InPaste /\ proc.pc = "exit" /\ proc.stdin.text # <<>>

IsPrefix(a, b) == Len(a) <= Len(b) /\ SubSeq(b, 1, Len(a)) = a

\* The non-empty lines of stdin, trimmed as handlePaste hands them on; the
\* lines that carry the bypass prefix are left aside.
NonEmptyLines ==
  LET lines == SelectSeq(SplitLines(proc.stdin.text),
                         LAMBDA line : line # <<>> /\ ~hasBypassPrefix(JsTrim(line)))
  IN [k \in 1..Len(lines) |-> JsTrim(lines[k])]

\* The lines handlePaste analyses: not blank, and without the bypass prefix.
AnalysedLines ==
  LET lines == SplitLines(proc.stdin.text)
      trimmed == [k \in 1..Len(lines) |-> JsTrim(lines[k])]
  IN SelectSeq(trimmed, LAMBDA c : c # <<>> /\ ~hasBypassPrefix(c))

\* The audit records follow the commands analysed, each with the decision of
\* the mode mapping, and only the last one can be a blocking one.
AuditFollowsChecked ==
  /\ Len(proc.audit) \in {Len(proc.checked), Len(proc.checked) - 1}
  /\ \A k \in 1..Len(proc.audit) :
        /\ proc.audit[k].command = proc.checked[k]
        /\ proc.audit[k].source = "paste"
        /\ proc.audit[k].decision = "allowed" <=> ~checkDestructive(proc.checked[k]).blocked
        /\ proc.audit[k].decision = "warn" => proc.mode = "permissive"
        /\ proc.audit[k].decision = "approved" => (proc.mode = "interactive" /\ proc.tty)
        /\ proc.audit[k].decision = "blocked" =>
             (k = Len(proc.audit) /\ k = Len(proc.checked) /\ proc.mode # "permissive")

LastIsBlocked ==
  /\ proc.audit # <<>>
  /\ proc.audit[Len(proc.audit)].decision = "blocked"

\* C14: in --paste mode the non-empty lines of stdin are analysed one at a time
\* in input order; the process exits 2 at the first line that is blocked after
\* mode mapping and no later line is analysed or audited; if no line is blocked
\* it exits 0 after all lines were analysed.
C14_NonEmptyLinesInOrder ==
  /\ InPaste => (IsPrefix(proc.checked, NonEmptyLines) /\ AuditFollowsChecked)
  /\ ExitedFromPaste =>
       /\ proc.exit \in {0, 2}
       /\ proc.exit = 2 <=> LastIsBlocked
       /\ proc.exit = 0 => proc.checked = NonEmptyLines

\* C14, amended: the same of the lines that are not blank and do not carry
\* the bypass prefix.
C14_AnalysedLinesInOrder ==
  /\ InPaste => (IsPrefix(proc.checked, AnalysedLines) /\ AuditFollowsChecked)
  /\ ExitedFromPaste =>
       /\ proc.exit \in {0, 2}
       /\ proc.exit = 2 <=> LastIsBlocked
       /\ proc.exit = 0 => proc.checked = AnalysedLines

C14_Witness ==
  /\ ExitedFromPaste
  /\ proc.exit = 2
  /\ Len(proc.checked) = 2
  /\ Len(AnalysedLines) = 3
  /\ Len(proc.audit) = 2
  /\ proc.audit[1].decision = "allowed"

(***************************************************************************)
(* git rm                                                                  *)
(***************************************************************************)
\* The walk of f stands on a command word that is git, reached as typed or
\* through a variable, and the token after it is the word rm in any case.
GitRmAt(f) ==
  /\ f.pc = "walk"
  /\ f.nmc
  /\ f.i < Len(f.tokens)
  /\ ~isOperator(f.tokens[f.i])
  /\ ~IsAssignment(f.tokens[f.i].s)
  /\ resolveCmdName(f.tokens[f.i].s, f.scope, sys.env) = W_git
  /\ ~isOperator(f.tokens[f.i + 1])
  /\ ToLower(f.tokens[f.i + 1].s) = W_rm

\* One segment git rm x, and git rm x followed by the segment rm y.
GitRmSegments ==
  {JoinSp(<<W_git, W_rm, X>>), JoinSp(<<W_sudo, ToUpper(W_git), ToUpper(W_rm), X>>)}
GitRmThenRm == JoinSp(<<W_git, W_rm, X, Semi, W_rm, Y>>)

\* C15: where the command word of a segment is git and its first argument is
\* rm in any case, the walk skips both words without a decision, and a command
\* made of that one segment is not blocked, rm and git being blocked names or
\* not; the exemption ends at the next operator: git rm x ; rm y is blocked for
\* its rm whenever rm is blocked and not allowed.
C15_GitRmExemption ==
  [][ /\ (stack # <<>> /\ GitRmAt(top))
         => /\ Len(stack') = Len(stack)
            /\ top'.pc = "walk" /\ top'.i = top.i + 2 /\ ~top'.nmc
            /\ lastHandled' = lastHandled
      /\ (done' /\ input.command \in GitRmSegments) => ~result'.blocked
      /\ (done' /\ input.command = GitRmThenRm /\ W_rm \in config.blocked \ config.allowed)
         => (result'.blocked /\ lastHandled' = <<W_rm>>) ]_vars

\* The walk of git rm x ; rm y stands behind the two skipped words, with rm
\* and git both blocked names.
C15_Witness ==
  /\ input.command = GitRmThenRm
  /\ {W_rm, W_git} \subseteq config.blocked
  /\ stack # <<>> /\ top.pc = "walk" /\ top.i = 3 /\ ~top.nmc
  /\ lastHandled = <<>>

(***************************************************************************)
(* getConfiguration                                                        *)
(***************************************************************************)
\* What the files supply after validation, and the valid values of the
\* environment variables: a positive threshold, a depth of 0 or more, a mode
\* word.
FileSupplied == loadConfigFile(proc.setup.local, proc.setup.home)
EnvNumber(variable) == IF variable = <<>> THEN <<>> ELSE parseInt(variable[1])
EnvThreshold ==
  SelectSeq(EnvNumber(proc.setup.env.SHELLSHIELD_THRESHOLD), LAMBDA n : n > 0)
EnvMaxSubshellDepth ==
  SelectSeq(EnvNumber(proc.setup.env.SHELLSHIELD_MAX_SUBSHELL_DEPTH), LAMBDA n : n >= 0)
EnvMode == parseModeValue(proc.setup.env.SHELLSHIELD_MODE)
ConfigurationRead == proc.pc \notin {"none", "main"}

\* C16: for each of threshold, maxSubshellDepth and mode, when the file and
\* the environment variable both supply a valid value, the configuration
\* getConfiguration returned holds the value of the environment.
C16_EnvironmentOverridesFile ==
  ConfigurationRead =>
    \A file \in {FileSupplied}, threshold \in {EnvThreshold},
       maxSubshellDepth \in {EnvMaxSubshellDepth}, mode \in {EnvMode} :
       /\ (file.threshold # <<>> /\ threshold # <<>>) => config.threshold = threshold[1]
       /\ (file.maxSubshellDepth # <<>> /\ maxSubshellDepth # <<>>)
            => config.maxSubshellDepth = maxSubshellDepth[1]
       /\ (file.mode # <<>> /\ mode # <<>>) => proc.mode = ModeName(mode[1])

(***************************************************************************)
(* curl and wget: the command lines analysed for the pipe checks, each     *)
(* under the default configuration and under one that trusts no domain.    *)
(***************************************************************************)
W_tee == <<"t","e","e">>
W_evilco == <<"e","v","i","l",".","c","o">>
InsecureFlag == <<"-","k">>
Userinfo == <<"u",":","p","@">>

\* The stages after the downloader: each is a sequence of words.
PipeTails ==
  {<<>>, << <<W_bash>> >>, << <<W_tee, X>> >>, << <<W_bash>>, <<W_tee, X>> >>,
   << <<W_tee, X>>, <<W_bash>> >>, << <<W_bash, SubshellFlag, W_ls>> >>}
PrefixedTails ==
  {<< <<W_sudo, W_bash>> >>, << <<W_env, W_sh>> >>, << <<W_command, W_bash>> >>}

RECURSIVE Piped(_)
Piped(stages) ==
  IF stages = <<>> THEN <<>> ELSE <<Pipe>> \o stages[1] \o Piped(Tail(stages))

Url(scheme, credentials, host) ==
  scheme \o (IF credentials THEN Userinfo ELSE <<>>) \o host \o <<"/","p">>

\* downloader [-k] scheme://[u:p@]host/p | stage | ...
Download(downloader, flag, scheme, credentials, host, stages) ==
  JoinSp(<<downloader>> \o (IF flag THEN <<InsecureFlag>> ELSE <<>>)
           \o <<Url(scheme, credentials, host)>> \o Piped(stages))

PipeCommands ==
  {Download(W_curl, flag, scheme, credentials, host, stages) :
     flag \in BOOLEAN, scheme \in {W_http, W_https}, credentials \in BOOLEAN,
     host \in {W_githubcom, W_evilco}, stages \in PipeTails}
    \cup {Download(d, FALSE, W_https, FALSE, host, stages) :
            d \in {W_curl, W_wget}, host \in {W_githubcom, W_evilco},
            stages \in PrefixedTails \cup {<< <<W_bash>> >>}}

CurlContexts ==
  {[context |-> NoContext, absent |-> AllFields],
   [context |-> NoContext, absent |-> AllFields \ {"trustedDomains"}]}

\* The downloads that write the file i, the commands that run it, and the
\* line: download op [ls op] run.
File == <<"i">>
DownloadForms ==
  {<<W_curl, <<"-","o">>, File, W_https \o W_evilco \o <<"/","p">>>>,
   <<W_curl, <<"-","O">>, W_https \o W_evilco \o <<"/">> \o File>>,
   <<W_wget, W_https \o W_evilco \o <<"/">> \o File>>}
Executions == {<<W_sh, File>>, <<<<".","/">> \o File>>, <<W_chmod, <<"+","x">>, File>>}
ControlWords == {<<"&","&">>, <<";">>, <<"|","|">>, <<"&">>}
DownloadThenRun(form, op, between, execution) ==
  JoinSp(form \o <<op>> \o (IF between THEN <<W_ls, op>> ELSE <<>>) \o execution)

DownloadCommands ==
  {DownloadThenRun(form, op, between, r) :
     form \in DownloadForms, op \in ControlWords, between \in BOOLEAN, r \in Executions}
    \cup {JoinSp(<<W_curl, W_https \o W_evilco \o <<"/">> \o File, Semi, W_sh, File>>)}

InitCurl ==
  /\ \E c \in PipeCommands \cup DownloadCommands : input = [command |-> c, len |-> Len(c), depth |-> 0]
  /\ \E ctx \in CurlContexts : config = toConfig(ctx.context, ctx.absent)
  /\ sys = [env |-> <<>>, dirty |-> {}, snapshot |-> <<>>]
  /\ stack = <<Frame(input.command, input.len, input.depth)>>
  /\ result = Null
  /\ done = FALSE
  /\ log = <<>>
  /\ calls = 0
  /\ lastHandled = <<>>
  /\ run = 1
  /\ prev = Null
  /\ first = sys
  /\ proc = NoProcess

NextCurl ==
  \/ DepthCheck
  \/ RunPreRule
  \/ Tokenize
  \/ RunPostRule
  \/ WalkStep
  \/ Return
  \/ Finish

CurlSpec == InitCurl /\ [][NextCurl]_vars

\* The decision the four checks give in their order: the words of the stages
\* that follow a pipe are their first words.
ShellStage(stage) == stage[1] \in SHELL_COMMANDS
ByPriority(flag, scheme, credentials, host, stages) ==
  IF credentials THEN "CREDENTIAL EXPOSURE DETECTED"
  ELSE IF ~\E k \in 1..Len(stages) : ShellStage(stages[k]) THEN ""
  ELSE IF scheme = W_http \/ flag THEN "INSECURE TRANSPORT DETECTED"
  ELSE IF Len(stages) = 1 /\ ShellStage(stages[1]) /\ HostTrusted(host, config.trustedDomains) THEN ""
  ELSE "PIPE-TO-SHELL DETECTED"

\* C17: for curl as the command word the decision is, in this order:
\* CREDENTIAL EXPOSURE DETECTED when the URL carries user-info, piped or not;
\* when some stage after a pipe is a shell, INSECURE TRANSPORT DETECTED for an
\* http:// URL or the flag -k, trusted host or not; allowed when the one stage
\* is a shell and the host of the URL is trusted; PIPE-TO-SHELL DETECTED
\* otherwise; without a shell among the stages the command is allowed.
C17_PipeCheckPriority ==
  done =>
    \A flag \in BOOLEAN, scheme \in {W_http, W_https}, credentials \in BOOLEAN,
       host \in {W_githubcom, W_evilco}, stages \in PipeTails :
       input.command = Download(W_curl, flag, scheme, credentials, host, stages)
         => /\ result.reason = ByPriority(flag, scheme, credentials, host, stages)
            /\ result.blocked <=> ByPriority(flag, scheme, credentials, host, stages) # ""

\* curl -k http://github.com/p | bash is refused for its transport although
\* github.com is trusted.
C17_Witness ==
  /\ done
  /\ input.command = Download(W_curl, TRUE, W_http, FALSE, W_githubcom, << <<W_bash>> >>)
  /\ HostTrusted(W_githubcom, config.trustedDomains)
  /\ result.reason = "INSECURE TRANSPORT DETECTED"

\* C18: curl or wget from a host that is not trusted, piped to a shell that
\* is run through sudo, env or command, is blocked with the decision of the
\* direct form, PIPE-TO-SHELL DETECTED.
C18_PrefixedShellStage ==
  done =>
    \A d \in {W_curl, W_wget}, stages \in PrefixedTails \cup {<< <<W_bash>> >>} :
       input.command = Download(d, FALSE, W_https, FALSE, W_evilco, stages)
         => (result.blocked /\ result.reason = "PIPE-TO-SHELL DETECTED")

\* C19: when curl or wget writes the file i (curl -o i, curl -O and wget of a
\* URL that ends in /i) and a command after a control operator is i itself or
\* sh or chmod with the argument i, the decision is DOWNLOAD-AND-EXEC
\* DETECTED, whether that command follows the download directly or another
\* command stands between them.
C19_DownloadAndExecAnywhere ==
  done =>
    \A form \in DownloadForms, op \in ControlWords, between \in BOOLEAN, r \in Executions :
       input.command = DownloadThenRun(form, op, between, r)
         => (result.blocked /\ result.reason = "DOWNLOAD-AND-EXEC DETECTED")

(***************************************************************************)
(* Blocked commands: rm, mv and chmod with up to three targets, under      *)
(* configurations that block all three, with two thresholds, and with x    *)
(* changed or unchanged in the git working tree.                           *)
(***************************************************************************)
Z == <<"z">>
Etc == <<"/","e","t","c">>
Windows == <<"C",":","\\","W","i","n","d","o","w","s">>
ForceFlag == <<"-","r","f">>
RecursiveFlag == <<"-","R">>
CriticalWords == {Etc, Windows}
FlagWords == {ForceFlag, RecursiveFlag}

BlockedNames == {W_rm, W_mv, W_chmod}
TargetLists ==
  {<<>>, <<X>>, <<Y, Z>>, <<X, Y>>, <<ForceFlag, Y, Z>>, <<X, Y, Z>>, <<RecursiveFlag, Y>>,
   <<Etc>>, <<ForceFlag, Windows>>, <<RecursiveFlag, X, Etc>>, <<X, Y, Z, Windows>>}
BlockedCommands ==
  {JoinSp(<<cmd>> \o args) : cmd \in BlockedNames, args \in TargetLists}
    \cup {BashC(SQ(JoinSp(<<W_rm, X>>)))}

BlockedContexts ==
  {[context |-> [NoContext EXCEPT !.blocked = DEFAULT_BLOCKED \cup {W_mv, W_chmod},
                                  !.threshold = t, !.allowed = a],
    absent |-> AllFields \ {"blocked", "threshold", "allowed"}] :
     t \in {SmallThreshold, SmallThreshold + 1}, a \in {{}, {W_mv}}}

InitBlocked ==
  /\ \E c \in BlockedCommands : input = [command |-> c, len |-> Len(c), depth |-> 0]
  /\ \E ctx \in BlockedContexts : config = toConfig(ctx.context, ctx.absent)
  /\ \E dirty \in {{}, {X}} : sys = [env |-> <<>>, dirty |-> dirty, snapshot |-> <<>>]
  /\ stack = <<Frame(input.command, input.len, input.depth)>>
  /\ result = Null
  /\ done = FALSE
  /\ log = <<>>
  /\ calls = 0
  /\ lastHandled = <<>>
  /\ run = 1
  /\ prev = Null
  /\ first = sys
  /\ proc = NoProcess

NextBlocked ==
  \/ DepthCheck
  \/ RunPreRule
  \/ Tokenize
  \/ RunPostRule
  \/ WalkStep
  \/ Return
  \/ Finish

BlockedSpec == InitBlocked /\ [][NextBlocked]_vars

\* The targets of an argument list, and the reason the claimed order gives.
TargetsOf(args) == SelectSeq(args, LAMBDA arg : arg \notin FlagWords)
HasCritical(args) == \E k \in 1..Len(args) : args[k] \in CriticalWords
ReasonInOrder(args) ==
  IF HasCritical(args) THEN "CRITICAL PATH PROTECTED"
  ELSE IF Len(TargetsOf(args)) > config.threshold THEN "VOLUME THRESHOLD EXCEEDED"
  ELSE IF \E k \in 1..Len(args) : args[k] \in sys.dirty THEN "UNCOMMITTED CHANGES DETECTED"
  ELSE "Destructive command '<cmd>' detected"

\* mv and cp, and chmod, chown and chgrp with a recursive flag, have their
\* own check of critical paths before the blocked list is looked at.
OwnCriticalCheck(cmd, args) ==
  /\ HasCritical(args)
  /\ \/ cmd \in {W_mv, W_cp}
     \/ (cmd \in {W_chmod, W_chown, W_chgrp} /\ \E k \in 1..Len(args) : args[k] = RecursiveFlag)

\* C20 as stated: a blocked command that is not allowed is always blocked,
\* with the first applicable of CRITICAL PATH PROTECTED, VOLUME THRESHOLD
\* EXCEEDED (more targets than the threshold), UNCOMMITTED CHANGES DETECTED,
\* Destructive command '<cmd>' detected.
C20_ReasonInOrder ==
  done =>
    \A cmd \in BlockedNames \cap (config.blocked \ config.allowed), args \in TargetLists :
       input.command = JoinSp(<<cmd>> \o args)
         => /\ result.blocked
            /\ result.reason = ReasonInOrder(args)
            /\ result.reason = "Destructive command '<cmd>' detected"
                 => result.reasonArgs = <<cmd>>

\* C20, amended: the same, except that a critical path gives CRITICAL PATH
\* TARGETED for mv and cp and for chmod, chown and chgrp with a recursive
\* flag.
C20_ReasonInOrderOrTargeted ==
  done =>
    \A cmd \in BlockedNames \cap (config.blocked \ config.allowed), args \in TargetLists :
       input.command = JoinSp(<<cmd>> \o args)
         => /\ result.blocked
            /\ result.reason = IF OwnCriticalCheck(cmd, args) THEN "CRITICAL PATH TARGETED"
                               ELSE ReasonInOrder(args)
            /\ result.reason = "Destructive command '<cmd>' detected"
                 => result.reasonArgs = <<cmd>>

\* rm with exactly threshold targets, none of them changed, is blocked as a
\* destructive command and not for its volume.
C20_Witness ==
  /\ done
  /\ \E args \in TargetLists :
        /\ input.command = JoinSp(<<W_rm>> \o args)
        /\ Len(TargetsOf(args)) = config.threshold
        /\ ~HasCritical(args)
  /\ result.reason = "Destructive command '<cmd>' detected"

(***************************************************************************)
(* The token walk: the command lines analysed for the walk's positions,    *)
(* each with the configuration and the surroundings it is analysed under.  *)
(***************************************************************************)
DefaultContext == [context |-> NoContext, absent |-> AllFields]
NoSystem == [env |-> <<>>, dirty |-> {}, snapshot |-> <<>>]
Case(command, ctx, system) == [command |-> command, ctx |-> ctx, sys |-> system]

RedirectionWords == {<<">">>, <<">",">">>, <<"<">>}
BoundaryWords == {<<"&","&">>, <<"|","|">>, <<";">>, <<"&">>, <<"|">>, <<"|","&">>}

\* ls op rm x for every operator, ls > rm, and > x rm y.
OperatorCases ==
  {Case(JoinSp(<<W_ls, op, W_rm, X>>), DefaultContext, NoSystem) :
     op \in RedirectionWords \cup BoundaryWords}
    \cup {Case(JoinSp(<<W_ls, op, W_rm>>), DefaultContext, NoSystem) : op \in RedirectionWords}
    \cup {Case(JoinSp(<<op, X, W_rm, Y>>), DefaultContext, NoSystem) : op \in RedirectionWords}
    \cup {Case(BashC(SQ(JoinSp(<<W_ls, <<">">>, X>>))), DefaultContext, NoSystem)}

\* V=rm $V x; ls V=rm ; $V x; ls -V=rm ; $V x; V=rm bash -c '$V x'.
W_ref == <<"$","V">>
AssignmentCases ==
  {Case(c, DefaultContext, NoSystem) :
     c \in {JoinSp(<<Assignment(W_V, W_rm), W_ref, X>>),
            JoinSp(<<W_ls, Assignment(W_V, W_rm), Semi, W_ref, X>>),
            JoinSp(<<W_ls, <<"-">> \o Assignment(W_V, W_rm), Semi, W_ref, X>>),
            JoinSp(<<W_ls, Semi, W_ref, X>>),
            JoinSp(<<Assignment(W_V, W_rm), W_bash, SubshellFlag, SQ(JoinSp(<<W_ref, X>>))>>)}}

\* Shells with -c and with other flags, under the default configuration, with
\* bash allowed, and with no nesting allowed.
RmX == JoinSp(<<W_rm, X>>)
OtherFlags == {<<"-","e">>, <<"-","-","c","o","m","m","a","n","d">>, <<"-","o">>, <<"-","C">>}
SubshellCases ==
  {Case(c, DefaultContext, NoSystem) :
     c \in {BashC(SQ(RmX)), JoinSp(<<W_sh, <<"-","x">>, SubshellFlag, SQ(RmX), Y>>),
            JoinSp(<<W_sudo, W_zsh, SubshellFlag, SQ(RmX)>>),
            BashC(SQ(<<"l","s"," ","$","{">>)), BashC(DQ(BashC(SQ(RmX)))), BashC(W_ls),
            JoinSp(<<W_bash, X, Pipe, W_ls, SubshellFlag, SQ(RmX)>>),
            JoinSp(<<W_ls, SubshellFlag, SQ(RmX)>>)}
       \cup {JoinSp(<<W_bash, flag, SQ(RmX)>>) : flag \in OtherFlags}}
    \cup {Case(c, [context |-> [NoContext EXCEPT !.allowed = {W_bash}],
                   absent |-> AllFields \ {"allowed"}], NoSystem) :
            c \in {BashC(SQ(RmX)), JoinSp(<<W_sh, SubshellFlag, SQ(BashC(RmX))>>)}}
    \cup {Case(BashC(W_ls), [context |-> NoContext, absent |-> AllFields \ {"maxSubshellDepth"}],
               NoSystem)}

\* ls, find and bash allowed, in a shell where ls is an alias that runs rm.
AliasedLs ==
  [env |-> <<>>, dirty |-> {},
   snapshot |-> <<[name |-> W_ls, kind |-> "alias", referencedTokens |-> <<W_rm>>]>>]
AllowedContext ==
  [context |-> [NoContext EXCEPT !.allowed = {W_ls, W_find, W_bash}],
   absent |-> AllFields \ {"allowed"}]
AllowedCases ==
  {Case(c, AllowedContext, system) :
     c \in {JoinSp(<<W_ls, X>>), JoinSp(<<W_find, X, <<"-","d","e","l","e","t","e">>>>),
            BashC(SQ(RmX)), RmX},
     system \in {NoSystem, AliasedLs}}

\* The arguments of find: -delete, and -exec, -execdir and -ok once and twice.
DeleteFlag == <<"-","d","e","l","e","t","e">>
FindArguments ==
  {<<X>>, <<X, DeleteFlag>>, <<DeleteFlag, X>>, <<X, FindFlags[1]>>,
   <<X, FindFlags[3], W_ls, FindFlags[1], W_ls>>}
    \cup {<<X, flag, name, Y>> :
            flag \in {FindFlags[1], FindFlags[2], FindFlags[3]},
            name \in {W_rm, W_ls, <<"/","b","i","n","/">> \o W_shred, W_bash}}
    \cup {<<X, flag, W_ls, Y, flag, name>> :
            flag \in {FindFlags[1], FindFlags[2], FindFlags[3]}, name \in {W_rm, W_ls}}
FindLine(arguments) == JoinSp(<<W_find>> \o arguments)
FindCases == {Case(FindLine(arguments), DefaultContext, NoSystem) : arguments \in FindArguments}

\* Output flags in their three forms, with sensitive paths and with x, as
\* arguments of ls, allowed or not, and of wget.
Tilde(path) == <<"~","/">> \o path
SensitivePaths ==
  {Tilde(<<".","s","s","h","/","k">>), Tilde(<<".","b","a","s","h","r","c">>),
   Tilde(<<".","z","s","h","r","c">>), Tilde(<<".","p","r","o","f","i","l","e">>),
   Tilde(<<".","g","i","t","c","o","n","f","i","g">>)}
GluedPrefixes == {OutputEq, OutputDocumentEq, <<"-","o">>, <<"-","O">>}
OutputWords(path) ==
  {<<flag, path>> : flag \in OutputFlagsAlone} \cup {<<prefix \o path>> : prefix \in GluedPrefixes}
OutputLines(name, paths) ==
  {JoinSp(<<name>> \o words) : words \in UNION {OutputWords(path) : path \in paths}}
OutputCases ==
  {Case(c, AllowedContext, NoSystem) : c \in OutputLines(W_ls, SensitivePaths \cup {X})}
    \cup {Case(c, DefaultContext, NoSystem) :
            c \in OutputLines(W_ls, {Tilde(<<".","b","a","s","h","r","c">>), X})
                    \cup OutputLines(W_wget, {Tilde(<<".","s","s","h","/","k">>)})
                    \cup {JoinSp(<<W_ls, <<";">>, <<"-","o">>, Tilde(<<".","z","s","h","r","c">>)>>),
                          JoinSp(<<W_sudo, <<"-","o">>, Tilde(<<".","z","s","h","r","c">>)>>),
                          JoinSp(<<W_ls, X, <<"-","-","o","u","t","p","u","t">>>>)}}

WalkCases ==
  OperatorCases \cup AssignmentCases \cup SubshellCases \cup AllowedCases \cup FindCases
    \cup OutputCases

InitWalk ==
  /\ \E c \in WalkCases :
        /\ input = [command |-> c.command, len |-> Len(c.command), depth |-> 0]
        /\ config = toConfig(c.ctx.context, c.ctx.absent)
        /\ sys = c.sys
  /\ stack = <<Frame(input.command, input.len, input.depth)>>
  /\ result = Null
  /\ done = FALSE
  /\ log = <<>>
  /\ calls = 0
  /\ lastHandled = <<>>
  /\ run = 1
  /\ prev = Null
  /\ first = sys
  /\ proc = NoProcess

NextWalk ==
  \/ DepthCheck
  \/ RunPreRule
  \/ Tokenize
  \/ RunPostRule
  \/ WalkStep
  \/ Return
  \/ Finish

WalkSpec == InitWalk /\ [][NextWalk]_vars

\* C21: only the boundary operators put the walk back into command position:
\* ls op rm x is blocked for each of them.  The word after a redirection
\* operator is a path and no command name: ls > rm is not blocked, and in
\* > x rm y the command rm is seen and blocked.
C21_RedirectionTargetIsNoCommand ==
  done =>
    /\ \A op \in BoundaryWords :
          input.command = JoinSp(<<W_ls, op, W_rm, X>>) => result.blocked
    /\ \A op \in RedirectionWords :
          /\ input.command = JoinSp(<<W_ls, op, W_rm>>) => ~result.blocked
          /\ input.command = JoinSp(<<W_ls, op, W_rm, X>>) => ~result.blocked
          /\ input.command = JoinSp(<<op, X, W_rm, Y>>) => result.blocked

\* Every analysis starts with an empty VarMap, the analysis of a subshell
\* command included.
FreshVarMap ==
  \A k \in 1..Len(stack) : stack[k].pc \in {"depth", "pre", "parse"} => stack[k].scope = <<>>

\* What holds of VarMap either way: a leading V=rm makes $V x the blocked
\* command rm, a word -V=rm writes nothing, and the inner analysis of
\* V=rm bash -c '$V x' does not see V.
VarMapCommon ==
  /\ FreshVarMap
  /\ done =>
       /\ input.command = JoinSp(<<Assignment(W_V, W_rm), W_ref, X>>) => result.blocked
       /\ input.command = JoinSp(<<W_ls, <<"-">> \o Assignment(W_V, W_rm), Semi, W_ref, X>>)
            => ~result.blocked
       /\ input.command = JoinSp(<<W_ls, Semi, W_ref, X>>) => ~result.blocked
       /\ input.command = JoinSp(<<Assignment(W_V, W_rm), W_bash, SubshellFlag,
                                   SQ(JoinSp(<<W_ref, X>>))>>)
            => ~result.blocked

\* C22 as stated: VarMap is written by NAME=value words in command position
\* only, so V=rm as an argument of ls does not make the later $V x the
\* command rm; VarMap is fresh for each analysis and not shared with the
\* analyses of subshell commands.
C22_ArgumentLeavesVarMap ==
  /\ VarMapCommon
  /\ (done /\ input.command = JoinSp(<<W_ls, Assignment(W_V, W_rm), Semi, W_ref, X>>))
       => ~result.blocked

\* C22, amended: a NAME=value word writes VarMap as an argument too, so after
\* ls V=rm the command word $V is rm and is blocked.
C22_ArgumentWritesVarMap ==
  /\ VarMapCommon
  /\ (done /\ input.command = JoinSp(<<W_ls, Assignment(W_V, W_rm), Semi, W_ref, X>>))
       => (result.blocked /\ lastHandled = <<W_rm>>)

C22_Witness ==
  /\ done
  /\ input.command = JoinSp(<<W_ls, Assignment(W_V, W_rm), Semi, W_ref, X>>)
  /\ result.reason = "Destructive command '<cmd>' detected"
  /\ result.reasonArgs = <<W_rm>>

\* The word after the first -c among the words that follow the command word of
\* f up to the next boundary operator; <<>> when there is none.
RECURSIVE WordAfterC(_, _)
WordAfterC(tokens, j) ==
  IF j >= Len(tokens) THEN <<>>
  ELSE IF isOperator(tokens[j]) /\ tokens[j].s \in BoundaryWords THEN <<>>
  ELSE IF ~isOperator(tokens[j]) /\ tokens[j].s = SubshellFlag
  THEN (IF isOperator(tokens[j + 1]) THEN <<>> ELSE <<tokens[j + 1].s>>)
  ELSE WordAfterC(tokens, j + 1)

\* The analysis stack[k] was invoked by the walk of stack[k - 1]: on the word
\* after -c of a shell that is not allowed, one level deeper.
InvokedOnWordAfterC(k) ==
  LET caller == stack[k - 1]
  IN /\ caller.pc = "sub"
     /\ resolveCmdName(caller.tokens[caller.i].s, caller.scope, sys.env)
          \in SHELL_COMMANDS \ config.allowed
     /\ WordAfterC(caller.tokens, caller.i + 1) = <<stack[k].command>>
     /\ stack[k].depth = caller.depth + 1

ShellLines ==
  {BashC(SQ(RmX)), JoinSp(<<W_sh, <<"-","x">>, SubshellFlag, SQ(RmX), Y>>),
   JoinSp(<<W_sudo, W_zsh, SubshellFlag, SQ(RmX)>>)}

\* C23: for a shell that is not allowed, with -c followed by a word among its
\* arguments, the analyzer is invoked on exactly that word, one level deeper
\* and under the same configuration, and a blocking decision of that analysis
\* is the decision of the outer one, with its reason, suggestion and rule;
\* -e, --command, -o and -C invoke no analysis.
C23_SubshellRecursion ==
  [][ /\ \A k \in 2..Len(stack') : InvokedOnWordAfterC(k)'
      /\ (Len(stack) > 1 /\ top.pc = "ret" /\ top.result.blocked)
           => (Len(stack') = Len(stack) - 1 /\ top'.pc = "ret" /\ top'.result = top.result)
      /\ config' = config
      /\ (done' /\ input.command \in ShellLines /\ W_bash \notin config.allowed)
           => (calls' = 1 /\ result'.blocked /\ result'.reasonArgs = <<W_rm>>)
      /\ (done' /\ \E flag \in OtherFlags : input.command = JoinSp(<<W_bash, flag, SQ(RmX)>>))
           => (calls' = 0 /\ ~result'.blocked) ]_vars

\* The analysis of ls ${ that bash -c 'ls ${' invoked has refused it as
\* malformed, and the outer analysis returns that decision.
C23_Witness ==
  /\ input.command = BashC(SQ(<<"l","s"," ","$","{">>))
  /\ Len(stack) = 1
  /\ top.pc = "ret"
  /\ top.result = MalformedSyntax
  /\ calls = 1

PerCommandReasons ==
  BlockedCommandReasons
    \cup {"SHELL CONTEXT OVERRIDE DETECTED", "find -delete detected", "find <flag> <cmd> detected"}

\* C24: a command whose resolved name is in allowed gets none of the
\* per-command checks: no decision of the shell-context check, the
\* blocked-command check or the find check is produced for it, and no
\* analysis of a -c word is invoked for it.
C24_AllowedSkipsChecks ==
  (done /\ lastHandled # <<>> /\ lastHandled[1] \in config.allowed)
    => /\ result.reason \notin PerCommandReasons
       /\ input.command = BashC(SQ(RmX)) => calls = 0

\* Some -exec, -execdir or -ok among the arguments is followed by a word whose
\* basename is a dangerous command.
DangerousExec(arguments, blocked) ==
  \E k \in 1..(Len(arguments) - 1) :
     /\ arguments[k] \in {FindFlags[1], FindFlags[2], FindFlags[3]}
     /\ normalizeCommandName(arguments[k + 1])
          \in blocked \cup ADDITIONAL_DANGEROUS_COMMANDS \cup EXECUTOR_COMMANDS

\* C25: a find that is not allowed is blocked when -delete is among its
\* arguments, and when any -exec, -execdir or -ok, not only the first of each,
\* is followed by a word whose basename is in blocked, is rm, shred, dd or
\* mkfs, or is an executor; otherwise it is not blocked.
C25_FindAnyOccurrence ==
  \A arguments \in FindArguments :
     (done /\ input.command = FindLine(arguments) /\ W_find \notin config.allowed)
       => (result.blocked
             <=> (\E k \in 1..Len(arguments) : arguments[k] = DeleteFlag)
                   \/ DangerousExec(arguments, config.blocked))

\* The word at index i is an output flag whose path is one of SensitivePaths:
\* the flag alone with the path as the next word, or the flag and the path
\* in one word.
SensitiveOutputAt(tokens, i) ==
  /\ ~isOperator(tokens[i])
  /\ \/ /\ tokens[i].s \in OutputFlagsAlone
        /\ i + 1 <= Len(tokens)
        /\ ~isOperator(tokens[i + 1])
        /\ tokens[i + 1].s \in SensitivePaths
     \/ \E prefix \in GluedPrefixes, path \in SensitivePaths : tokens[i].s = prefix \o path

\* C26: when the walk meets, outside command position, an output flag (-o, -O,
\* --output, --output-document, followed by the path, with =path, or glued to
\* it) whose path is ~/.ssh/..., ~/.bashrc, ~/.zshrc, ~/.profile or
\* ~/.gitconfig, the analysis blocks with SENSITIVE PATH TARGETED, whatever the
\* command is and also when it is allowed.
C26_SensitiveOutputBlocked ==
  [][ /\ (/\ stack # <<>>
          /\ top.pc = "walk"
          /\ top.i <= Len(top.tokens)
          /\ ~top.nmc
          /\ SensitiveOutputAt(top.tokens, top.i))
           => /\ Len(stack') = Len(stack)
              /\ top'.pc = "ret"
              /\ top'.result.blocked
              /\ top'.result.reason = "SENSITIVE PATH TARGETED"
      /\ (done' /\ \E name \in {W_ls, W_wget} : input.command \in OutputLines(name, SensitivePaths))
           => result'.reason = "SENSITIVE PATH TARGETED" ]_vars

\* ls is allowed, and ls -O~/.gitconfig has been blocked for its output path.
C26_Witness ==
  /\ done
  /\ input.command = JoinSp(<<W_ls, <<"-","O">> \o Tilde(<<".","g","i","t","c","o","n","f","i","g">>)>>)
  /\ lastHandled = <<W_ls>>
  /\ W_ls \in config.allowed
  /\ result.blocked
  /\ result.reason = "SENSITIVE PATH TARGETED"
  /\ result.rule = "CoreAstRule"

(***************************************************************************)
(* The validators on their own: a caller hands a token to getHostname and  *)
(* the hostname to isSuspiciousHost, as hasHomograph does for each of its  *)
(* candidates.  The analysis variables stay as they are.                   *)
(***************************************************************************)
NoAnalysis ==
  /\ config = toConfig(NoContext, AllFields)
  /\ sys = NoSystem
  /\ input = [command |-> <<>>, len |-> 0, depth |-> 0]
  /\ stack = <<>>
  /\ result = Null
  /\ done = FALSE
  /\ log = <<>>
  /\ calls = 0
  /\ lastHandled = <<>>
  /\ run = 1
  /\ prev = Null
  /\ first = sys

analysis == <<input, config, sys, stack, result, done, log, calls, lastHandled, run, prev, first>>

MaxHostLen == 3
HostChars == {"a", "Z", "1", ".", "CYR", "GRK", "OTH", "ZW"}
RECURSIVE SeqsUpTo(_, _)
SeqsUpTo(chars, n) ==
  IF n = 0 THEN {<<>>}
  ELSE LET shorter == SeqsUpTo(chars, n - 1)
       IN shorter \cup {Append(h, c) : h \in shorter, c \in chars}
Hostnames == SeqsUpTo(HostChars, MaxHostLen)
HostTokens == {W_https \o h \o <<"/","x">> : h \in Hostnames} \cup {h \o <<":","8">> : h \in Hostnames}

InitHost ==
  /\ NoAnalysis
  /\ \E token \in HostTokens : proc = [pc |-> "token", token |-> token]

GetHostname ==
  /\ proc.pc = "token"
  /\ proc' = [pc |-> "host", token |-> proc.token, host |-> getHostname(proc.token)]
  /\ UNCHANGED analysis

IsSuspiciousHost ==
  /\ proc.pc = "host"
  /\ proc' = [pc |-> "classified", token |-> proc.token, host |-> proc.host,
              detected |-> isSuspiciousHost(proc.host)]
  /\ UNCHANGED analysis

NextHost == GetHostname \/ IsSuspiciousHost
HostSpec == InitHost /\ [][NextHost]_vars

LatinLetters == {"a", "Z"}
NonLatinScripts(host) == {c \in {"CYR", "GRK", "OTH"} : \E k \in 1..Len(host) : host[k] = c}
HasLatin(host) == \E k \in 1..Len(host) : host[k] \in LatinLetters

\* C27: a hostname is reported when, and only when, it has a dot, has a
\* non-ASCII letter, and either mixes Latin letters with a non-Latin script or
\* uses two or more non-Latin scripts; one non-Latin script alone is not
\* reported, and zero-width characters count as no script.
C27_HomographClassification ==
  proc.pc = "classified" =>
    /\ proc.detected
         <=> /\ \E k \in 1..Len(proc.host) : proc.host[k] = "."
             /\ NonLatinScripts(proc.host) # {}
             /\ \/ HasLatin(proc.host)
                \/ Cardinality(NonLatinScripts(proc.host)) >= 2
    /\ (Cardinality(NonLatinScripts(proc.host)) = 1 /\ ~HasLatin(proc.host)) => ~proc.detected
    /\ proc.detected
         = isSuspiciousHost(SelectSeq(proc.host, LAMBDA c : c # "ZW"))

\* Cyrillic and Greek around a dot, without a Latin letter, are reported.
C27_Witness ==
  /\ proc.pc = "classified"
  /\ proc.host = <<"CYR", ".", "GRK">>
  /\ proc.detected

(***************************************************************************)
(* resolveVariable on its own: a token made of references and literal      *)
(* text, resolved against a local scope and a process environment.         *)
(***************************************************************************)
MaxPieces == 2
W_W == <<"W">>
Ref(name) == <<"$">> \o name
Braced(name) == <<"$","{">> \o name \o <<"}">>
Defaulted(name) == <<"$","{">> \o name \o <<":","-","d","}">>
RefNames == {W_V, W_W}
RefPieces == UNION {{Ref(name), Braced(name), Defaulted(name)} : name \in RefNames}
LiteralPieces == {<<"$">>, <<"$","{","}">>, <<"/">>}
PieceSeqs == SeqsUpTo(RefPieces \cup LiteralPieces, MaxPieces) \ {<<>>}
RECURSIVE Flatten(_)
Flatten(pieces) == IF pieces = <<>> THEN <<>> ELSE Head(pieces) \o Flatten(Tail(pieces))
LocalScopes == {<<>>, << <<W_V, <<>>>> >>, << <<W_V, W_rm>> >>}
Environments == {<<>>, << <<W_V, X>> >>, << <<W_V, <<>>>>, <<W_W, Y>> >>}

InitResolve ==
  /\ NoAnalysis
  /\ \E pieces \in PieceSeqs, scope \in LocalScopes, env \in Environments :
        proc = [pc |-> "token", pieces |-> pieces, scope |-> scope, env |-> env]

ResolveVariable ==
  /\ proc.pc = "token"
  /\ proc' = [pc |-> "resolved", pieces |-> proc.pieces, scope |-> proc.scope, env |-> proc.env,
              out |-> resolveVariable(Flatten(proc.pieces), proc.scope, proc.env)]
  /\ UNCHANGED analysis

\* The caller takes the resolved text, for the token when it is empty.
UseResolved ==
  /\ proc.pc = "resolved"
  /\ proc' = [proc EXCEPT !.pc = "used", !.out = IF @ = <<>> THEN Flatten(proc.pieces) ELSE @]
  /\ UNCHANGED analysis

NextResolve == ResolveVariable \/ UseResolved
ResolveSpec == InitResolve /\ [][NextResolve]_vars

\* The value a name has: in the local scope first, in the environment second.
IsSet(name, scope, env) ==
  \E k \in 1..Len(scope \o env) : (scope \o env)[k][1] = name
Looked(name, scope, env) ==
  LET both == scope \o env
  IN both[CHOOSE k \in 1..Len(both) :
            both[k][1] = name /\ \A j \in 1..(k - 1) : both[j][1] # name][2]

\* What a piece stands for according to C28.
Resolved(piece, scope, env) ==
  IF \E name \in RefNames : piece = Defaulted(name)
  THEN LET name == CHOOSE x \in RefNames : piece = Defaulted(x)
       IN IF IsSet(name, scope, env) /\ Looked(name, scope, env) # <<>>
          THEN Looked(name, scope, env) ELSE <<"d">>
  ELSE IF \E name \in RefNames : piece \in {Ref(name), Braced(name)}
  THEN LET name == CHOOSE x \in RefNames : piece \in {Ref(x), Braced(x)}
       IN IF IsSet(name, scope, env) THEN Looked(name, scope, env) ELSE piece
  ELSE piece

\* C28: resolveVariable replaces every $NAME, ${NAME} and ${NAME:-default} of
\* the token, with the value the name has in vars or else in the process
\* environment; under :- the default stands for an unset or empty value,
\* without it an empty value is used as it is; a reference set in neither
\* scope, $ and ${} stay as they are.
C28_ResolveVariable ==
  proc.pc = "resolved" =>
    proc.out = Flatten([k \in 1..Len(proc.pieces) |->
                          Resolved(proc.pieces[k], proc.scope, proc.env)])

\* ${V:-d}$W with V empty in vars and W set in the environment only.
C28_Witness ==
  /\ proc.pc = "resolved"
  /\ proc.pieces = <<Defaulted(W_V), Ref(W_W)>>
  /\ proc.scope = << <<W_V, <<>>>> >>
  /\ proc.env = << <<W_V, <<>>>>, <<W_W, Y>> >>
  /\ proc.out = <<"d">> \o Y

(***************************************************************************)
(* security/validators.ts: scoreUrlRisk, and handleScore that prints it.   *)
(*                                                                         *)
(* NewUrl is new URL(url) for a text of the form scheme://authority/path   *)
(* or without a scheme: the constructor throws for a text without a scheme *)
(* and for an empty host, lowers the host and writes a label that has      *)
(* non-ASCII characters as xn-- followed by its ASCII characters and an    *)
(* encoding, "PUNY" here.                                                  *)
(***************************************************************************)
RECURSIVE SplitOn(_, _)
SplitOn(s, c) ==
  LET k == IndexFrom(s, c, 1)
  IN IF k = 0 THEN <<s>> ELSE <<SubSeq(s, 1, k - 1)>> \o SplitOn(Drop(s, k), c)

RECURSIVE JoinWith(_, _)
JoinWith(parts, c) ==
  IF Len(parts) = 1 THEN parts[1] ELSE parts[1] \o <<c>> \o JoinWith(Tail(parts), c)

ToAscii(host) ==
  LET encode(label) ==
        IF \E k \in 1..Len(label) : IsNonAsciiLetter(label[k])
        THEN <<"x","n","-","-">> \o SelectSeq(label, LAMBDA ch : ~IsNonAsciiLetter(ch))
               \o <<"PUNY">>
        ELSE label
      labels == SplitOn(host, ".")
  IN JoinWith([k \in 1..Len(labels) |-> encode(labels[k])], ".")

NewUrl(url) ==
  LET sep == <<":","/","/">>
      build(scheme, auth) ==
        LET at == LastIndexOf(auth, "@", Len(auth))
            hostport == Drop(auth, at)
            close == IndexFrom(hostport, "]", 1)
            host == IF hostport # <<>> /\ hostport[1] = "[" /\ close > 0
                    THEN SubSeq(hostport, 1, close)
                    ELSE BeforeFirst(hostport, ":")
        IN [ok |-> scheme # <<>> /\ host # <<>>,
            protocol |-> ToLower(scheme) \o <<":">>,
            userinfo |-> SubSeq(auth, 1, at - 1),
            hostname |-> ToAscii(ToLower(host))]
  IN IF ~Includes(url, sep)
     THEN [ok |-> FALSE, protocol |-> <<>>, userinfo |-> <<>>, hostname |-> <<>>]
     ELSE Value({build(BeforeFirst(url, ":"), BeforeAny(rest, {"/", "?", "#"})) :
                   rest \in {AfterFirst(url, sep)}})

isIpHost(hostname) ==
  LET parts == SplitOn(hostname, ".")
  IN \/ /\ Len(parts) = 4
        /\ \A k \in 1..4 : /\ Len(parts[k]) \in 1..3
                           /\ \A j \in 1..Len(parts[k]) : parts[k][j] \in Digits
     \/ /\ Len(hostname) >= 3
        /\ hostname[1] = "["
        /\ hostname[Len(hostname)] = "]"
        /\ \A k \in 2..(Len(hostname) - 1) :
              LowerChar(hostname[k]) \in Digits \cup {"a","b","c","d","e","f",":"}

\* A URL is its text and its length: the length exceeds Len(url) when the
\* text is followed by a long query that no test below reads.
scoreUrlRisk(url, len, trustedDomains) ==
  LET when(cond, points, reason) ==
        IF cond THEN [score |-> points, reasons |-> <<reason>>]
        ELSE [score |-> 0, reasons |-> <<>>]
      total(parts, trusted) ==
        LET sum == parts[1].score + parts[2].score + parts[3].score + parts[4].score
                     + parts[5].score + parts[6].score + parts[7].score
        IN [score |-> IF sum > 100 THEN 100 ELSE sum,
            reasons |-> parts[1].reasons \o parts[2].reasons \o parts[3].reasons
                          \o parts[4].reasons \o parts[5].reasons \o parts[6].reasons
                          \o parts[7].reasons,
            trusted |-> trusted]
      score(parsed, homograph, trusted) ==
        Value({total(parts, trusted) :
                 parts \in {<<when(parsed.protocol # <<"h","t","t","p","s",":">>, 30,
                                   "INSECURE_PROTOCOL"),
                              when(parsed.userinfo \notin {<<>>, <<":">>}, 30,
                                   "CREDENTIALS_IN_URL"),
                              when(Includes(parsed.hostname, <<"x","n","-","-">>), 15,
                                   "PUNYCODE_DOMAIN"),
                              when(isIpHost(parsed.hostname), 20, "IP_ADDRESS_HOST"),
                              when(homograph, 25, "HOMOGRAPH_MIXED_SCRIPTS"),
                              when(~trusted, 10, "UNTRUSTED_DOMAIN"),
                              when(len > 100, 10, "LONG_URL")>>}})
      decide(parsed) ==
        IF ~parsed.ok
        THEN [score |-> 100, reasons |-> <<"INVALID_URL">>, trusted |-> FALSE]
        ELSE Value({score(parsed, homograph, trusted) :
                      homograph \in {hasHomograph(url, len)},
                      trusted \in {HostTrusted(parsed.hostname, trustedDomains)}})
  IN Value({decide(parsed) : parsed \in {NewUrl(url)}})

\* The parts a URL is written from, with what C29 says of its host.
HostCase(text, puny, ip, mixed, trusted) ==
  [text |-> text, puny |-> puny, ip |-> ip, mixed |-> mixed, trusted |-> trusted]
HostCases ==
  {HostCase(W_githubcom, FALSE, FALSE, FALSE, TRUE),
   HostCase(<<"x",".">> \o W_githubcom, FALSE, FALSE, FALSE, TRUE),
   HostCase(<<"e","v","i","l",".","c","o">>, FALSE, FALSE, FALSE, FALSE),
   HostCase(<<"x","n","-","-","a",".","c","o">>, TRUE, FALSE, FALSE, FALSE),
   HostCase(<<"1",".","2",".","3",".","4">>, FALSE, TRUE, FALSE, FALSE),
   HostCase(<<"[",":",":","1","]">>, FALSE, TRUE, FALSE, FALSE),
   HostCase(<<"a","CYR",".","c","o">>, TRUE, FALSE, TRUE, FALSE),
   HostCase(<<"GRK",".","CYR">>, TRUE, FALSE, TRUE, FALSE),
   HostCase(<<"CYR",".","CYR">>, TRUE, FALSE, FALSE, FALSE),
   HostCase(<<>>, FALSE, FALSE, FALSE, FALSE)}
Schemes == {W_https, W_http, <<"f","t","p",":","/","/">>, <<>>}
Userinfos == {<<>>, <<"u","@">>, <<"u",":","p","@">>}
LongQuery == 100
UrlCases ==
  {[scheme |-> scheme, userinfo |-> userinfo, host |-> host, long |-> long] :
     scheme \in Schemes, userinfo \in Userinfos, host \in HostCases, long \in BOOLEAN}
UrlText(c) == c.scheme \o c.userinfo \o c.host.text \o <<"/","i">>

InitScore ==
  /\ NoAnalysis
  /\ \E c \in UrlCases, json \in BOOLEAN :
        proc = [pc |-> "score", case |-> c, url |-> UrlText(c),
                len |-> Len(UrlText(c)) + (IF c.long THEN LongQuery ELSE 0), json |-> json]

\* handleScore: the score of the URL is printed, as JSON or as text.
HandleScore ==
  /\ proc.pc = "score"
  /\ \E r \in {scoreUrlRisk(proc.url, proc.len, config.trustedDomains)} :
        proc' = [pc |-> "scored", case |-> proc.case, url |-> proc.url, len |-> proc.len,
                 json |-> proc.json, risk |-> r,
                 out |-> IF proc.json THEN <<"json">>
                         ELSE <<"Score", "Trusted">>
                                \o (IF r.reasons # <<>> THEN <<"Reasons">> ELSE <<>>),
                 exit |-> 0]
  /\ UNCHANGED analysis

NextScore == HandleScore
ScoreSpec == InitScore /\ [][NextScore]_vars

\* The reasons that apply to a URL written from the parts c, with their weights.
AppliesTo(c) ==
  {r \in {[reason |-> "INSECURE_PROTOCOL", weight |-> 30, applies |-> c.scheme # W_https],
          [reason |-> "CREDENTIALS_IN_URL", weight |-> 30, applies |-> c.userinfo # <<>>],
          [reason |-> "PUNYCODE_DOMAIN", weight |-> 15, applies |-> c.host.puny],
          [reason |-> "IP_ADDRESS_HOST", weight |-> 20, applies |-> c.host.ip],
          [reason |-> "HOMOGRAPH_MIXED_SCRIPTS", weight |-> 25, applies |-> c.host.mixed],
          [reason |-> "UNTRUSTED_DOMAIN", weight |-> 10, applies |-> ~c.host.trusted],
          [reason |-> "LONG_URL", weight |-> 10, applies |-> c.long]} : r.applies}

RECURSIVE WeightOf(_)
WeightOf(rs) ==
  IF rs = {} THEN 0 ELSE LET r == CHOOSE x \in rs : TRUE IN r.weight + WeightOf(rs \ {r})

Unparsable(c) == c.scheme = <<>> \/ c.host.text = <<>>

MAX_SCRIPT_BYTES == 1024 * 1024
MAX_FINDINGS == 20

SCRIPT_KEYWORDS ==
  {<<"i","f">>, <<"t","h","e","n">>, <<"f","i">>, <<"f","o","r">>, <<"w","h","i","l","e">>,
   <<"u","n","t","i","l">>, <<"d","o">>, <<"d","o","n","e">>, <<"c","a","s","e">>,
   <<"e","s","a","c">>, <<"f","u","n","c","t","i","o","n">>}
SCRIPT_COMMANDS ==
  {W_rm, W_shred, W_dd, W_mkfs, W_find, <<"x","a","r","g","s">>, W_curl, W_wget, W_bash, W_sh,
   W_zsh, <<"p","y","t","h","o","n">>, <<"n","o","d","e">>, <<"r","u","b","y">>,
   <<"p","e","r","l">>, <<"p","h","p">>, <<"s","y","s","t","e","m","c","t","l">>}
SCRIPT_MARKS == {<<"|">>, <<"BQ">>, <<"$","(">>, <<"&","&">>, <<";">>}

\* \bword\b at position k of s, letters compared without case.
WordAt(s, k, word) ==
  /\ HasAt(ToLower(s), k, word)
  /\ (k = 1 \/ ~IsWordChar(s[k - 1]))
  /\ (k + Len(word) > Len(s) \/ ~IsWordChar(s[k + Len(word)]))

shouldAnalyzeScriptLine(line) ==
  \E trimmed \in {JsTrim(line)} :
     /\ trimmed # <<>>
     /\ trimmed[1] # "#"
     /\ ~\E word \in SCRIPT_KEYWORDS : WordAt(trimmed, 1, word)
     /\ trimmed \notin {<<"{">>, <<"}">>}
     /\ \/ \E word \in SCRIPT_COMMANDS, k \in 1..Len(trimmed) : WordAt(trimmed, k, word)
        \/ \E mark \in SCRIPT_MARKS : Includes(trimmed, mark)

promptYesNo(inTty, errTty, answer) ==
  IF ~inTty \/ ~errTty THEN FALSE
  ELSE ToLower(JsTrim(answer)) \in {<<"y">>, W_yes}

\* The enforce-mode gate that looks at the risk score only.
EnforceBlocksOnScore(p, score, findings) ==
  ~p.force /\ p.mode = "enforce" /\ score >= 70

\* handleRun refuses the script in enforce mode.
EnforceBlocks(p, score, findings) ==
  ~p.force /\ p.mode = "enforce" /\ (score >= 70 \/ Len(findings) > 0)

RunAudit(p, blocked, reason, decision) ==
  Append(p.audit, [command |-> <<"shellshield run ">> \o p.url, blocked |-> blocked,
                   reason |-> reason, rule |-> "RemoteRun", source |-> "run",
                   mode |-> p.mode, decision |-> decision])

RunExit(p, code) == [p EXCEPT !.pc = "exit", !.exit = code]
RunBlocked(p, reason, code) ==
  RunExit([p EXCEPT !.audit = RunAudit(p, TRUE, reason, "blocked")], code)

\* bash runs the script and ends with code.
RunScript(p, code) ==
  RunExit([p EXCEPT !.executed = TRUE,
                    !.audit = IF code = 0
                              THEN RunAudit(p, FALSE, "REMOTE SCRIPT EXECUTED", "approved")
                              ELSE RunAudit(p, FALSE, "REMOTE SCRIPT EXIT CODE <code>", "warn")],
          code)

\* handleRun up to fetch(url).
HandleRun ==
  /\ proc.pc = "run"
  /\ \E risk \in {scoreUrlRisk(proc.url, Len(proc.url), config.trustedDomains)} :
        proc' = IF proc.url = <<>> \/ StartsWith(proc.url, <<"-","-">>) THEN RunExit(proc, 1)
                ELSE IF risk.reasons = <<"INVALID_URL">> THEN RunExit(proc, 1)
                ELSE [proc EXCEPT !.pc = "fetch", !.score = risk.score]
  /\ UNCHANGED analysis

\* handleRun from the downloaded script to analyzeRemoteScript.
AfterDownload(p, script) ==
  LET got == [p EXCEPT !.downloaded = TRUE, !.script = script]
  IN IF JsTrim(script.text) = <<>> THEN RunBlocked(got, "REMOTE SCRIPT EMPTY", 2)
     ELSE IF script.bytes > MAX_SCRIPT_BYTES THEN RunBlocked(got, "REMOTE SCRIPT TOO LARGE", 2)
     ELSE [got EXCEPT !.pc = "analyze", !.lines = SplitLines(script.text), !.li = 1]

ScriptTexts ==
  {<<>>, <<" ","\n">>, JoinSp(<<W_ls, X>>), RmX, <<"#"," ">> \o RmX,
   JoinSp(<<W_ls, X>>) \o <<"\r","\n">> \o RmX \o <<"\n">>,
   <<"i","f"," ">> \o RmX, <<"e","c","h","o"," ">> \o W_rm, BashC(SQ(RmX))}
Scripts ==
  {[text |-> text, bytes |-> Len(text)] : text \in ScriptTexts}
    \cup {[text |-> text, bytes |-> bytes] :
            text \in {JoinSp(<<W_ls, X>>), RmX},
            bytes \in {MAX_SCRIPT_BYTES, MAX_SCRIPT_BYTES + 1}}
ExitCodes == {0, 3}

\* fetch(url) returns: the download has failed, or the script is there.
Downloaded ==
  /\ proc.pc = "fetch"
  /\ \/ proc' = RunExit(proc, 1)
     \/ \E script \in Scripts : proc' = AfterDownload(proc, script)
  /\ UNCHANGED analysis

\* analyzeRemoteScript at its next line: the line is left aside, or handed to
\* checkDestructive(line, 0, config).
AnalyzeLine ==
  /\ proc.pc = "analyze"
  /\ proc.li <= Len(proc.lines)
  /\ Len(proc.found) < MAX_FINDINGS
  /\ \E line \in {JsTrim(proc.lines[proc.li])} :
        IF shouldAnalyzeScriptLine(line)
        THEN /\ proc' = [proc EXCEPT !.pc = "call"]
             /\ input' = [command |-> line, len |-> Len(line), depth |-> 0]
             /\ stack' = <<Frame(line, Len(line), 0)>>
             /\ result' = Null
             /\ done' = FALSE
             /\ log' = <<>>
             /\ calls' = 0
             /\ lastHandled' = <<>>
             /\ UNCHANGED <<config, sys, run, prev, first>>
        ELSE /\ proc' = [proc EXCEPT !.li = @ + 1]
             /\ UNCHANGED analysis

\* checkDestructive has returned: a blocking decision is a finding.
Collect ==
  /\ proc.pc = "call"
  /\ done
  /\ proc' = [proc EXCEPT !.pc = "analyze", !.li = @ + 1,
                          !.found = IF result.blocked
                                    THEN Append(@, [line |-> proc.li, command |-> input.command,
                                                    reason |-> result.reason,
                                                    rule |-> result.rule])
                                    ELSE @]
  /\ UNCHANGED analysis

\* handleRun from the findings to the prompt, or to its end when no prompt is
\* needed; code is the exit code of bash when it runs the script.
AfterAnalysis(q, code) ==
  IF EnforceBlocks(q, q.score, q.found)
  THEN RunBlocked(q, IF q.score >= 70 THEN "REMOTE URL RISK TOO HIGH"
                     ELSE "REMOTE SCRIPT FINDINGS DETECTED", 2)
  ELSE IF q.dryRun
  THEN RunExit([q EXCEPT !.audit = RunAudit(q, FALSE, "REMOTE SCRIPT REVIEWED", "allowed")], 0)
  ELSE IF ~q.yes /\ (~q.inTty \/ ~q.errTty)
  THEN RunBlocked(q, "REMOTE SCRIPT CONFIRMATION REQUIRED", 1)
  ELSE IF ~q.yes THEN [q EXCEPT !.pc = "prompt"]
  ELSE RunScript(q, code)

Review ==
  /\ proc.pc = "analyze"
  /\ proc.li > Len(proc.lines) \/ Len(proc.found) >= MAX_FINDINGS
  /\ \E code \in ExitCodes : proc' = AfterAnalysis(proc, code)
  /\ UNCHANGED analysis

RunAnswers == {<<"y">>, <<" ","Y","E","S">>, <<"n">>, <<>>, <<"y","e","a","h">>}

\* promptYesNo returns with what the operator has typed.
Answered ==
  /\ proc.pc = "prompt"
  /\ \E answer \in RunAnswers, code \in ExitCodes :
        proc' = LET q == [proc EXCEPT !.answer = answer]
                IN IF promptYesNo(q.inTty, q.errTty, answer) THEN RunScript(q, code)
                   ELSE RunBlocked(q, "REMOTE SCRIPT EXECUTION CANCELLED", 2)
  /\ UNCHANGED analysis

RunUrls ==
  {<<>>, <<"-","-","y","e","s">>, <<"x">>, W_https \o W_githubcom \o <<"/","i">>,
   W_http \o <<"e","v","i","l",".","c","o","/","i">>,
   W_http \o <<"u","@","e","v","i","l",".","c","o","/","i">>}
HighRiskUrls == {W_http \o <<"u","@","e","v","i","l",".","c","o","/","i">>}

InitRun ==
  /\ NoAnalysis
  /\ \E url \in RunUrls, yes \in BOOLEAN, force \in BOOLEAN, dryRun \in BOOLEAN,
        mode \in {"enforce", "permissive", "interactive"}, inTty \in BOOLEAN, errTty \in BOOLEAN :
        proc = [pc |-> "run", url |-> url, yes |-> yes, force |-> force, dryRun |-> dryRun,
                mode |-> mode, inTty |-> inTty, errTty |-> errTty, score |-> 0,
                downloaded |-> FALSE, script |-> [text |-> <<>>, bytes |-> 0],
                lines |-> <<>>, li |-> 0, found |-> <<>>,
                answer |-> <<>>, audit |-> <<>>, executed |-> FALSE, exit |-> NoExit]

NextRun ==
  \/ HandleRun
  \/ Downloaded
  \/ AnalyzeLine
  \/ DepthCheck
  \/ RunPreRule
  \/ Tokenize
  \/ RunPostRule
  \/ WalkStep
  \/ Return
  \/ Finish
  \/ Collect
  \/ Review
  \/ Answered
RunSpec == InitRun /\ [][NextRun]_vars

HarmfulScripts ==
  {RmX, JoinSp(<<W_ls, X>>) \o <<"\r","\n">> \o RmX \o <<"\n">>, BashC(SQ(RmX))}
BlankScripts == {<<>>, <<" ","\n">>}

=============================================================================
